---- MODULE Spec2Model ----
(***************************************************************************)
(* A model of the ibis expression compiler's literal formatters, dialect   *)
(* registries (generic SQL, BigQuery, DuckDB), translation rules and the   *)
(* Decimal data type.  Text is modelled as a sequence of lexical pieces    *)
(* (tokens, or single characters inside a string literal); a raised        *)
(* exception as a record naming the exception class and its message.       *)
(***************************************************************************)
EXTENDS Integers, Sequences, FiniteSets, TLC

VARIABLES
    operation_registry,  \* base SQL registry imported by the BigQuery module
    postgres_registry,   \* postgres registry imported by the DuckDB module
    OPERATION_REGISTRY,  \* BigQuery's final registry (module attribute)
    duckdb_registry,     \* DuckDB's final registry (module attribute)
    call,                \* name of the function or rule last called
    args,                \* its arguments
    ret,                 \* what it returned or raised
    decorator,           \* the decorator add_operation last returned, or <<>>
    threads,             \* the compilation each thread is running
    dictionary,          \* the pandas backend's tables (self.dictionary)
    schemas,             \* the pandas backend's recorded schemas (self.schemas)
    grouped              \* the GroupedTable the caller holds, or <<>>

vars == <<operation_registry, postgres_registry, OPERATION_REGISTRY,
          duckdb_registry, call, args, ret, decorator, threads, dictionary,
          schemas, grouped>>

registries == <<operation_registry, postgres_registry, OPERATION_REGISTRY,
                duckdb_registry>>

compilations == <<decorator, threads>>

pandas == <<dictionary, schemas>>

(***************************************************************************)
(* Results of a call.                                                      *)
(***************************************************************************)
Ok(text) == [kind |-> "ok", text |-> text]

Raise(exc, msg) == [kind |-> "raise", exc |-> exc, msg |-> msg]

IsOk(r) == r.kind = "ok"

IsRaise(r) == r.kind = "raise"

(***************************************************************************)
(* Sequence helpers.                                                       *)
(***************************************************************************)
Range(s) == {s[i] : i \in DOMAIN s}

RECURSIVE Flatten(_)
Flatten(ss) == IF ss = <<>> THEN <<>> ELSE Head(ss) \o Flatten(Tail(ss))

\* sep.join(parts), each part a text
RECURSIVE Join(_, _)
Join(sep, parts) ==
    IF parts = <<>> THEN <<>>
    ELSE IF Len(parts) = 1 THEN Head(parts)
    ELSE Head(parts) \o sep \o Join(sep, Tail(parts))

RECURSIVE SeqsUpTo(_, _)
SeqsUpTo(S, n) ==
    IF n = 0 THEN {<<>>}
    ELSE LET shorter == SeqsUpTo(S, n - 1)
         IN  shorter \cup {<<x>> \o s : x \in S, s \in {t \in shorter : Len(t) = n - 1}}

Restrict(f, S) == [k \in S |-> f[k]]

(***************************************************************************)
(* Dialect registries: operation kind -> translation rule.                 *)
(***************************************************************************)
\* bounds of the registry model
MaxExprDepth == 2

\* operation kinds the imported base registries may or may not define
SqlBaseCandidates == {"Literal", "FindInSet", "ExtractHost", "Sum"}

PgBaseCandidates == {"Literal", "Translate", "NTile", "GeoArea", "Sum"}

SqlBaseRegistries == {[k \in S |-> "base_sql_rule"] : S \in SUBSET SqlBaseCandidates}

PgBaseRegistries == {[k \in S |-> "postgres_rule"] : S \in SUBSET PgBaseCandidates}

\* keys of ibis.backends.base.sql.alchemy.registry.geospatial_functions
geospatial_functions == {"GeoArea", "GeoAsText", "GeoDistance", "GeoLength"}

BigQueryOverlay ==
       "Literal" :> "_literal"
    @@ "Any" :> "reduction('LOGICAL_OR')"
    @@ "All" :> "reduction('LOGICAL_AND')"
    @@ "IfNull" :> "fixed_arity('IFNULL', 2)"
    @@ "NullIf" :> "fixed_arity('NULLIF', 2)"
    @@ "NullIfZero" :> "_nullifzero"
    @@ "ZeroIfNull" :> "_zeroifnull"
    @@ "ApproxMedian" :> "compiles_approx"
    @@ "Covariance" :> "_covar"
    @@ "Correlation" :> "_corr"
    @@ "Divide" :> "bigquery_compiles_divide"
    @@ "Floor" :> "compiles_floor"
    @@ "Modulus" :> "fixed_arity('MOD', 2)"
    @@ "Sign" :> "unary('SIGN')"
    @@ "BitwiseNot" :> "lambda"
    @@ "BitwiseXor" :> "lambda"
    @@ "BitwiseOr" :> "lambda"
    @@ "BitwiseAnd" :> "lambda"
    @@ "BitwiseLeftShift" :> "lambda"
    @@ "BitwiseRightShift" :> "lambda"
    @@ "Date" :> "unary('DATE')"
    @@ "DateFromYMD" :> "fixed_arity('DATE', 3)"
    @@ "DateAdd" :> "_timestamp_op"
    @@ "DateSub" :> "_timestamp_op"
    @@ "DateTruncate" :> "_truncate"
    @@ "DayOfWeekIndex" :> "bigquery_day_of_week_index"
    @@ "DayOfWeekName" :> "bigquery_day_of_week_name"
    @@ "ExtractEpochSeconds" :> "_extract_field('epochseconds')"
    @@ "ExtractYear" :> "_extract_field('year')"
    @@ "ExtractQuarter" :> "_extract_field('quarter')"
    @@ "ExtractMonth" :> "_extract_field('month')"
    @@ "ExtractWeekOfYear" :> "_extract_field('isoweek')"
    @@ "ExtractDay" :> "_extract_field('day')"
    @@ "ExtractDayOfYear" :> "_extract_field('dayofyear')"
    @@ "ExtractHour" :> "_extract_field('hour')"
    @@ "ExtractMinute" :> "_extract_field('minute')"
    @@ "ExtractSecond" :> "_extract_field('second')"
    @@ "ExtractMillisecond" :> "_extract_field('millisecond')"
    @@ "Strftime" :> "compiles_strftime"
    @@ "StringToTimestamp" :> "compiles_string_to_timestamp"
    @@ "Time" :> "unary('TIME')"
    @@ "TimeFromHMS" :> "fixed_arity('TIME', 3)"
    @@ "TimeTruncate" :> "_truncate"
    @@ "TimestampAdd" :> "_timestamp_op"
    @@ "TimestampFromUNIX" :> "integer_to_timestamp"
    @@ "TimestampFromYMDHMS" :> "fixed_arity('DATETIME', 6)"
    @@ "TimestampNow" :> "fixed_arity('CURRENT_TIMESTAMP', 0)"
    @@ "TimestampSub" :> "_timestamp_op"
    @@ "TimestampTruncate" :> "_truncate"
    @@ "IntervalMultiply" :> "_interval_multiply"
    @@ "Hash" :> "_hash"
    @@ "StringReplace" :> "fixed_arity('REPLACE', 3)"
    @@ "StringSplit" :> "fixed_arity('SPLIT', 2)"
    @@ "StringConcat" :> "_string_concat"
    @@ "StringJoin" :> "_string_join"
    @@ "StringAscii" :> "_string_ascii"
    @@ "StringFind" :> "_string_find"
    @@ "Substring" :> "_string_substring"
    @@ "StrRight" :> "_string_right"
    @@ "Capitalize" :> "_capitalize"
    @@ "Translate" :> "fixed_arity('TRANSLATE', 3)"
    @@ "Repeat" :> "fixed_arity('REPEAT', 2)"
    @@ "RegexSearch" :> "_regex_search"
    @@ "RegexExtract" :> "_regex_extract"
    @@ "RegexReplace" :> "_regex_replace"
    @@ "GroupConcat" :> "reduction('STRING_AGG')"
    @@ "Cast" :> "_cast"
    @@ "StructField" :> "_struct_field"
    @@ "StructColumn" :> "_struct_column"
    @@ "ArrayCollect" :> "_array_agg"
    @@ "ArrayConcat" :> "_array_concat"
    @@ "ArrayColumn" :> "_array_column"
    @@ "ArrayIndex" :> "_array_index"
    @@ "ArrayLength" :> "unary('ARRAY_LENGTH')"
    @@ "ArrayRepeat" :> "_array_repeat"
    @@ "ArraySlice" :> "_array_slice"
    @@ "Log" :> "_log"
    @@ "Log2" :> "_log2"
    @@ "Arbitrary" :> "_arbitrary"
    @@ "GeoUnaryUnion" :> "unary('ST_UNION_AGG')"
    @@ "GeoArea" :> "unary('ST_AREA')"
    @@ "GeoAsBinary" :> "unary('ST_ASBINARY')"
    @@ "GeoAsText" :> "unary('ST_ASTEXT')"
    @@ "GeoAzimuth" :> "fixed_arity('ST_AZIMUTH', 2)"
    @@ "GeoBuffer" :> "fixed_arity('ST_BUFFER', 2)"
    @@ "GeoCentroid" :> "unary('ST_CENTROID')"
    @@ "GeoContains" :> "fixed_arity('ST_CONTAINS', 2)"
    @@ "GeoCovers" :> "fixed_arity('ST_COVERS', 2)"
    @@ "GeoCoveredBy" :> "fixed_arity('ST_COVEREDBY', 2)"
    @@ "GeoDWithin" :> "fixed_arity('ST_DWITHIN', 3)"
    @@ "GeoDifference" :> "fixed_arity('ST_DIFFERENCE', 2)"
    @@ "GeoDisjoint" :> "fixed_arity('ST_DISJOINT', 2)"
    @@ "GeoDistance" :> "fixed_arity('ST_DISTANCE', 2)"
    @@ "GeoEndPoint" :> "unary('ST_ENDPOINT')"
    @@ "GeoEquals" :> "fixed_arity('ST_EQUALS', 2)"
    @@ "GeoGeometryType" :> "unary('ST_GEOMETRYTYPE')"
    @@ "GeoIntersection" :> "fixed_arity('ST_INTERSECTION', 2)"
    @@ "GeoIntersects" :> "fixed_arity('ST_INTERSECTS', 2)"
    @@ "GeoLength" :> "unary('ST_LENGTH')"
    @@ "GeoMaxDistance" :> "fixed_arity('ST_MAXDISTANCE', 2)"
    @@ "GeoNPoints" :> "unary('ST_NUMPOINTS')"
    @@ "GeoPerimeter" :> "unary('ST_PERIMETER')"
    @@ "GeoPoint" :> "fixed_arity('ST_GEOGPOINT', 2)"
    @@ "GeoPointN" :> "fixed_arity('ST_POINTN', 2)"
    @@ "GeoSimplify" :> "_geo_simplify"
    @@ "GeoStartPoint" :> "unary('ST_STARTPOINT')"
    @@ "GeoTouches" :> "fixed_arity('ST_TOUCHES', 2)"
    @@ "GeoUnion" :> "fixed_arity('ST_UNION', 2)"
    @@ "GeoWithin" :> "fixed_arity('ST_WITHIN', 2)"
    @@ "GeoX" :> "unary('ST_X')"
    @@ "GeoXMax" :> "_geo_boundingbox('xmax')"
    @@ "GeoXMin" :> "_geo_boundingbox('xmin')"
    @@ "GeoY" :> "unary('ST_Y')"
    @@ "GeoYMax" :> "_geo_boundingbox('ymax')"
    @@ "GeoYMin" :> "_geo_boundingbox('ymin')"
    @@ "BitAnd" :> "reduction('BIT_AND')"
    @@ "BitOr" :> "reduction('BIT_OR')"
    @@ "BitXor" :> "reduction('BIT_XOR')"
    @@ "ApproxCountDistinct" :> "reduction('APPROX_COUNT_DISTINCT')"
    @@ "IdenticalTo" :> "_identical_to"
    @@ "FloorDivide" :> "_floor_divide"
    @@ "IsNan" :> "_is_nan"
    @@ "IsInf" :> "_is_inf"
    @@ "ArgMin" :> "_arg_min_max('ASC')"
    @@ "ArgMax" :> "_arg_min_max('DESC')"
    @@ "Pi" :> "lambda"
    @@ "E" :> "lambda"
    @@ "RandomScalar" :> "fixed_arity('RAND', 0)"
    @@ "NthValue" :> "_nth_value"
    @@ "JSONGetItem" :> "lambda"
    @@ "ArrayStringJoin" :> "lambda"
    @@ "StartsWith" :> "fixed_arity('STARTS_WITH', 2)"
    @@ "EndsWith" :> "fixed_arity('ENDS_WITH', 2)"

DuckDBOverlay ==
       "ArrayColumn" :> "lambda"
    @@ "ArrayConcat" :> "fixed_arity"
    @@ "ArrayRepeat" :> "fixed_arity"
    @@ "ArrayLength" :> "unary"
    @@ "ArraySlice" :> "_array_slice"
    @@ "ArrayIndex" :> "_array_index"
    @@ "ArrayMap" :> "_array_map"
    @@ "ArrayFilter" :> "_array_filter"
    @@ "ArrayContains" :> "fixed_arity"
    @@ "ArrayPosition" :> "fixed_arity"
    @@ "ArrayDistinct" :> "fixed_arity"
    @@ "ArraySort" :> "fixed_arity"
    @@ "ArrayRemove" :> "lambda"
    @@ "ArrayUnion" :> "fixed_arity"
    @@ "DayOfWeekName" :> "unary"
    @@ "Literal" :> "_literal"
    @@ "Log2" :> "unary"
    @@ "Ln" :> "unary"
    @@ "Log" :> "_log"
    @@ "IsNan" :> "unary"
    @@ "Modulus" :> "fixed_arity"
    @@ "Round" :> "_round"
    @@ "StructField" :> "lambda"
    @@ "TableColumn" :> "_table_column"
    @@ "TimestampFromUNIX" :> "_timestamp_from_unix"
    @@ "TimestampNow" :> "fixed_arity"
    @@ "RegexExtract" :> "fixed_arity"
    @@ "RegexReplace" :> "fixed_arity"
    @@ "RegexSearch" :> "fixed_arity"
    @@ "StringContains" :> "fixed_arity"
    @@ "ApproxMedian" :> "reduction"
    @@ "ApproxCountDistinct" :> "reduction"
    @@ "Mode" :> "reduction"
    @@ "Strftime" :> "_strftime"
    @@ "Arbitrary" :> "_arbitrary"
    @@ "GroupConcat" :> "_string_agg"
    @@ "StructColumn" :> "_struct_column"
    @@ "ArgMin" :> "reduction"
    @@ "ArgMax" :> "reduction"
    @@ "BitwiseXor" :> "fixed_arity"
    @@ "JSONGetItem" :> "fixed_arity"
    @@ "RowID" :> "lambda"
    @@ "StringToTimestamp" :> "fixed_arity"
    @@ "Quantile" :> "reduction"
    @@ "MultiQuantile" :> "reduction"
    @@ "TypeOf" :> "unary"
    @@ "IntervalAdd" :> "fixed_arity"
    @@ "IntervalSubtract" :> "fixed_arity"
    @@ "Capitalize" :> "alchemy.sqlalchemy_operation_registry"
    @@ "ArrayStringJoin" :> "fixed_arity"
    @@ "SearchedCase" :> "_searched_case"
    @@ "SimpleCase" :> "_simple_case"
    @@ "StartsWith" :> "fixed_arity"
    @@ "EndsWith" :> "fixed_arity"
    @@ "Argument" :> "lambda"
    @@ "Unnest" :> "unary"
    @@ "MapGet" :> "fixed_arity"
    @@ "Map" :> "fixed_arity"
    @@ "MapContains" :> "fixed_arity"
    @@ "MapLength" :> "unary"
    @@ "MapKeys" :> "_map_keys"
    @@ "MapValues" :> "_map_values"
    @@ "MapMerge" :> "_map_merge"


bigquery_invalid_operations ==
    {"FindInSet", "DateDiff", "TimestampDiff", "ExtractAuthority", "ExtractFile",
     "ExtractFragment", "ExtractHost", "ExtractPath", "ExtractProtocol",
     "ExtractQuery", "ExtractUserInfo"}

duckdb_invalid_operations ==
    {"CumulativeAll", "CumulativeAny", "CumulativeOp", "NTile", "Translate",
     "ToJSONMap", "ToJSONArray"}

\* a mis-built registry: the denylist is applied to the base registry only
BuildBigQueryNoDenylist(base) ==
    BigQueryOverlay @@ Restrict(base, DOMAIN base \ {"FindInSet"})

\* {**operation_registry, <overlay>} and then the comprehension that drops
\* the denylisted kinds
BuildBigQuery(base) ==
    LET layered == BigQueryOverlay @@ base
    IN  Restrict(layered, DOMAIN layered \ bigquery_invalid_operations)

\* the postgres registry without the geospatial functions
DuckDBBase(pg) == Restrict(pg, DOMAIN pg \ geospatial_functions)

\* a mis-built registry: the rules of the base replace those of the overlay
BuildDuckDBBaseFirst(pg) ==
    LET updated == DuckDBBase(pg) @@ DuckDBOverlay
    IN  Restrict(updated, DOMAIN updated \ duckdb_invalid_operations)

\* operation_registry.update({...}) and then the denylist comprehension
BuildDuckDB(pg) ==
    LET updated == DuckDBOverlay @@ DuckDBBase(pg)
    IN  Restrict(updated, DOMAIN updated \ duckdb_invalid_operations)

\* ExprTranslator.translate on a chain of unary operations, outermost first:
\* the rule of the node's kind is looked up, and formats its translated child
RECURSIVE Translate(_, _, _)
Translate(dialect, reg, expr) ==
    IF expr = <<>> THEN Ok(<<>>)
    ELSE IF Head(expr) \notin DOMAIN reg
         THEN Raise("OperationNotDefinedError", <<dialect, Head(expr)>>)
         ELSE LET child == Translate(dialect, reg, Tail(expr))
              IN  IF IsRaise(child) THEN child
                  ELSE Ok(<<reg[Head(expr)], "(">> \o child.text \o <<")">>)

Dialects == {"bigquery", "duckdb"}

ExprKinds == {"Literal", "FindInSet", "Translate", "Sum", "NTile"}

Exprs == SeqsUpTo(ExprKinds, MaxExprDepth) \ {<<>>}

RegistryOf(dialect) ==
    IF dialect = "bigquery" THEN OPERATION_REGISTRY ELSE duckdb_registry

InvalidOf(dialect) ==
    IF dialect = "bigquery" THEN bigquery_invalid_operations
    ELSE duckdb_invalid_operations


(***************************************************************************)
(* Data types: the class taxonomy and the kind predicates.                 *)
(***************************************************************************)
\* direct data type bases of every data type class
Bases ==
       "DataType" :> {}
    @@ "Unknown" :> {"DataType"}
    @@ "Primitive" :> {"DataType"}
    @@ "Variadic" :> {"DataType"}
    @@ "Parametric" :> {"DataType"}
    @@ "Null" :> {"Primitive"}
    @@ "Boolean" :> {"Primitive"}
    @@ "Numeric" :> {"DataType"}
    @@ "Integer" :> {"Primitive", "Numeric"}
    @@ "String" :> {"Variadic"}
    @@ "Binary" :> {"Variadic"}
    @@ "Temporal" :> {"DataType"}
    @@ "Date" :> {"Temporal", "Primitive"}
    @@ "Time" :> {"Temporal", "Primitive"}
    @@ "Timestamp" :> {"Temporal", "Parametric"}
    @@ "SignedInteger" :> {"Integer"}
    @@ "UnsignedInteger" :> {"Integer"}
    @@ "Floating" :> {"Primitive", "Numeric"}
    @@ "Int8" :> {"SignedInteger"}
    @@ "Int16" :> {"SignedInteger"}
    @@ "Int32" :> {"SignedInteger"}
    @@ "Int64" :> {"SignedInteger"}
    @@ "UInt8" :> {"UnsignedInteger"}
    @@ "UInt16" :> {"UnsignedInteger"}
    @@ "UInt32" :> {"UnsignedInteger"}
    @@ "UInt64" :> {"UnsignedInteger"}
    @@ "Float16" :> {"Floating"}
    @@ "Float32" :> {"Floating"}
    @@ "Float64" :> {"Floating"}
    @@ "Decimal" :> {"Numeric", "Parametric"}
    @@ "Interval" :> {"Parametric"}
    @@ "Struct" :> {"Parametric"}
    @@ "Array" :> {"Variadic", "Parametric"}
    @@ "Set" :> {"Variadic", "Parametric"}
    @@ "Map" :> {"Variadic", "Parametric"}
    @@ "JSON" :> {"Variadic"}
    @@ "GeoSpatial" :> {"DataType"}
    @@ "Point" :> {"GeoSpatial"}
    @@ "LineString" :> {"GeoSpatial"}
    @@ "Polygon" :> {"GeoSpatial"}
    @@ "MultiLineString" :> {"GeoSpatial"}
    @@ "MultiPoint" :> {"GeoSpatial"}
    @@ "MultiPolygon" :> {"GeoSpatial"}
    @@ "UUID" :> {"DataType"}
    @@ "MACADDR" :> {"String"}
    @@ "INET" :> {"String"}

RECURSIVE Ancestors(_)
Ancestors(cls) == {cls} \cup UNION {Ancestors(b) : b \in Bases[cls]}

\* isinstance(dtype, cls)
IsInstance(dtype, cls) == cls \in Ancestors(dtype.cls)

is_array(dtype) == IsInstance(dtype, "Array")

is_boolean(dtype) == IsInstance(dtype, "Boolean")

is_date(dtype) == IsInstance(dtype, "Date")

is_decimal(dtype) == IsInstance(dtype, "Decimal")

is_floating(dtype) == IsInstance(dtype, "Floating")

is_interval(dtype) == IsInstance(dtype, "Interval")

is_map(dtype) == IsInstance(dtype, "Map")

is_numeric(dtype) == IsInstance(dtype, "Numeric")

is_set(dtype) == IsInstance(dtype, "Set")

is_string(dtype) == IsInstance(dtype, "String")

is_struct(dtype) == IsInstance(dtype, "Struct")

is_timestamp(dtype) == IsInstance(dtype, "Timestamp")

is_uuid(dtype) == IsInstance(dtype, "UUID")

is_binary(dtype) == IsInstance(dtype, "Binary")

is_integer(dtype) == IsInstance(dtype, "Integer")

is_json(dtype) == IsInstance(dtype, "JSON")

is_signed_integer(dtype) == IsInstance(dtype, "SignedInteger")

is_temporal(dtype) == IsInstance(dtype, "Temporal")

is_time(dtype) == IsInstance(dtype, "Time")

is_unsigned_integer(dtype) == IsInstance(dtype, "UnsignedInteger")

is_variadic(dtype) == IsInstance(dtype, "Variadic")

\* a data type without parameters
DT(cls) == [cls |-> cls]

\* an optional parameter: <<>> when it is None, <<"int", n>> when it is n
NoParam == <<>>

Param(n) == <<"int", n>>

\* a parameter that is a number but no integer
NonIntegral(n) == <<"float", n>>

DecimalType(precision, scale) ==
    [cls |-> "Decimal", precision |-> precision, scale |-> scale]

IntervalType(unit) == [cls |-> "Interval", unit |-> unit]

\* Struct.fields is an ordered mapping: a sequence of <<name, type>>
StructType(fields) == [cls |-> "Struct", fields |-> fields]

ArrayType(value_type) == [cls |-> "Array", value_type |-> value_type]

SetType(value_type) == [cls |-> "Set", value_type |-> value_type]

MapType(key_type, value_type) ==
    [cls |-> "Map", key_type |-> key_type, value_type |-> value_type]

\* Struct.names and Struct.types
names(dtype) == [i \in DOMAIN dtype.fields |-> dtype.fields[i][1]]

types(dtype) == [i \in DOMAIN dtype.fields |-> dtype.fields[i][2]]

\* Struct.__getitem__
StructGetItem(dtype, key) ==
    LET i == CHOOSE j \in DOMAIN dtype.fields : dtype.fields[j][1] = key
    IN  dtype.fields[i][2]

\* Interval.resolution (the unit's singular name)
resolution(dtype) == dtype.unit

(***************************************************************************)
(* Host (Python) values held by literal nodes, and their str() / repr().   *)
(* A text is a sequence of pieces: tokens, or the single characters of a   *)
(* string; the piece "'" is a quote character.                             *)
(***************************************************************************)
None == [py |-> "NoneType"]

PyInt(n) == [py |-> "int", num |-> "finite", n |-> n]

\* a float: finite (the integral value n), or nan / inf / -inf
PyFloat(num, n) == [py |-> "float", num |-> num, n |-> n]

\* a decimal.Decimal: finite (the integral value n), or nan / inf / -inf
Dec(num, n) == [py |-> "Decimal", num |-> num, n |-> n]

PyBool(b) == [py |-> "bool", b |-> b]

\* a str, as the sequence of its characters
Str(chars) == [py |-> "str", s |-> chars]

Bytes(b64) == [py |-> "bytes", b64 |-> b64]

Uuid(chars) == [py |-> "UUID", s |-> chars]

\* a datetime.date / datetime.datetime / datetime.time, by its ISO text
Date(iso) == [py |-> "date", iso |-> iso]

Datetime(iso) == [py |-> "datetime", iso |-> iso]

Time(iso) == [py |-> "time", iso |-> iso]

\* a mapping, as the sequence of <<key, value>> in its iteration order
Dict(items) == [py |-> "dict", items |-> items]

\* a list / tuple / frozenset, as the sequence of its elements
List(elems) == [py |-> "list", elems |-> elems]

IsNone(v) == v.py = "NoneType"

IsNumber(v) == v.py \in {"int", "float", "Decimal"}

\* math.isfinite / np.isfinite, math.isnan, math.isinf
isfinite(v) == v.num = "finite"

isnan(v) == v.num = "nan"

isinf(v) == v.num \in {"inf", "-inf"}

\* mapping[key]
DictGet(v, key) ==
    LET i == CHOOSE j \in DOMAIN v.items : v.items[j][1] = key
    IN  v.items[i][2]

Quote == "'"

Backslash == "\\"

DoubleQuote == "\""

Quoted(text) == <<Quote>> \o text \o <<Quote>>

\* str.replace(old, new) for a one-character old
RECURSIVE Replace(_, _, _)
Replace(chars, old, new) ==
    IF chars = <<>> THEN <<>>
    ELSE (IF Head(chars) = old THEN new ELSE <<Head(chars)>>)
             \o Replace(Tail(chars), old, new)

\* repr() of a str: single quotes unless the string holds a single quote and
\* no double quote; backslashes and the enclosing quote are escaped
PyReprStr(chars) ==
    LET esc == Replace(chars, Backslash, <<Backslash, Backslash>>)
    IN  IF Quote \in Range(chars) /\ DoubleQuote \notin Range(chars)
        THEN <<DoubleQuote>> \o esc \o <<DoubleQuote>>
        ELSE Quoted(Replace(esc, Quote, <<Backslash, Quote>>))

\* str() of a number
PyStrNumber(v) ==
    IF v.py = "int" THEN <<ToString(v.n)>>
    ELSE IF v.py = "float"
    THEN (IF isfinite(v) THEN <<ToString(v.n) \o ".0">> ELSE <<v.num>>)
    ELSE (IF isfinite(v) THEN <<ToString(v.n)>>
          ELSE IF isnan(v) THEN <<"NaN">>
          ELSE IF v.num = "inf" THEN <<"Infinity">> ELSE <<"-Infinity">>)

\* str() of a value
PyStr(v) ==
    IF IsNumber(v) THEN PyStrNumber(v)
    ELSE IF v.py \in {"str", "UUID"} THEN v.s
    ELSE IF v.py = "bool" THEN (IF v.b THEN <<"True">> ELSE <<"False">>)
    ELSE IF v.py \in {"date", "datetime", "time"} THEN <<v.iso>>
    ELSE <<"None">>

\* repr() of a scalar value
PyRepr(v) ==
    IF v.py = "str" THEN PyReprStr(v.s)
    ELSE IF v.py = "Decimal" THEN <<"Decimal", "(">> \o Quoted(PyStrNumber(v)) \o <<")">>
    ELSE IF v.py = "date" THEN <<"datetime.date", "(", v.iso, ")">>
    ELSE IF v.py = "datetime" THEN <<"datetime.datetime", "(", v.iso, ")">>
    ELSE PyStr(v)

\* str(list(value)): the reprs of the elements between brackets
PyStrList(elems) ==
    <<"[">> \o Join(<<",">>, [i \in DOMAIN elems |-> PyRepr(elems[i])]) \o <<"]">>

\* the first exception raised among the results rs, in order
FirstRaise(rs) == rs[CHOOSE i \in DOMAIN rs : IsRaise(rs[i]) /\ \A j \in 1..(i - 1) : IsOk(rs[j])]

AllOk(rs) == \A i \in DOMAIN rs : IsOk(rs[i])

Texts(rs) == [i \in DOMAIN rs |-> rs[i].text]

(***************************************************************************)
(* Literal formatters.  A literal node is [dtype, value].                  *)
(***************************************************************************)
Literal(value, dtype) == [dtype |-> dtype, value |-> value]

\* the SQL type name a dialect gives a data type (ibis_type_to_bigquery_type,
\* translator.get_sqla_type), kept as an opaque piece
ibis_type_to_bigquery_type(dtype) == "bigquery:" \o dtype.cls

get_sqla_type(dtype) == "sqla:" \o dtype.cls

RECURSIVE TranslateLiteral(_, _)

_boolean_literal_format(op) == Ok(IF op.value.b THEN <<"TRUE">> ELSE <<"FALSE">>)

\* a formatter that leaves the value's quotes as they are
StringLiteralNoEscape(op) == Ok(Quoted(op.value.s))

_string_literal_format(op) ==
    Ok(Quoted(Replace(op.value.s, Quote, <<Backslash, Quote>>)))

_number_literal_format(op) ==
    IF isfinite(op.value) THEN Ok(PyRepr(op.value))
    ELSE LET formatted_val ==
                 IF isnan(op.value) THEN <<"NaN">>
                 ELSE IF op.value.num = "inf" THEN <<"Infinity">>
                 ELSE <<"-Infinity">>
         IN  Ok(<<"CAST", "(">> \o PyReprStr(formatted_val) \o <<"AS", "DOUBLE", ")">>)

_interval_literal_format(op) ==
    Ok(<<"INTERVAL">> \o PyStr(op.value) \o <<resolution(op.dtype)>>)

_date_literal_format(op) ==
    IF op.value.py \in {"date", "datetime"}
    THEN Ok(PyReprStr(<<op.value.iso>>))
    ELSE Ok(PyRepr(op.value))

_timestamp_literal_format(op) ==
    IF op.value.py = "datetime"
    THEN Ok(PyReprStr(<<op.value.iso>>))
    ELSE Ok(PyRepr(op.value))

_set_literal_format(dialect, op) ==
    LET value_type == op.dtype.value_type
        formatted == [i \in DOMAIN op.value.elems |->
                         TranslateLiteral(dialect, Literal(op.value.elems[i], value_type))]
    IN  IF AllOk(formatted)
        THEN Ok(<<"(">> \o Join(<<",">>, Texts(formatted)) \o <<")">>)
        ELSE FirstRaise(formatted)

UnsupportedType(dtype) == Raise("NotImplementedError", <<"Unsupported type", dtype.cls>>)

\* a dispatcher that looks at the declared type before it looks at the value
LiteralTypeFirst(dialect, op) ==
    LET dtype == op.dtype
    IN  IF ~(\/ is_boolean(dtype) \/ is_string(dtype) \/ is_date(dtype)
             \/ is_numeric(dtype) \/ is_timestamp(dtype) \/ is_interval(dtype)
             \/ is_set(dtype))
        THEN UnsupportedType(dtype)
        ELSE IF IsNone(op.value) THEN Ok(<<"NULL">>)
        ELSE IF is_boolean(dtype) THEN _boolean_literal_format(op)
        ELSE IF is_string(dtype) THEN _string_literal_format(op)
        ELSE IF is_date(dtype) THEN _date_literal_format(op)
        ELSE IF is_numeric(dtype) THEN _number_literal_format(op)
        ELSE IF is_timestamp(dtype) THEN _timestamp_literal_format(op)
        ELSE IF is_interval(dtype) THEN _interval_literal_format(op)
        ELSE _set_literal_format(dialect, op)

\* the generic rule of ops.Literal
literal(dialect, op) ==
    LET dtype == op.dtype
    IN  IF IsNone(op.value) THEN Ok(<<"NULL">>)
        ELSE IF is_boolean(dtype) THEN _boolean_literal_format(op)
        ELSE IF is_string(dtype) THEN _string_literal_format(op)
        ELSE IF is_date(dtype) THEN _date_literal_format(op)
        ELSE IF is_numeric(dtype) THEN _number_literal_format(op)
        ELSE IF is_timestamp(dtype) THEN _timestamp_literal_format(op)
        ELSE IF is_interval(dtype) THEN _interval_literal_format(op)
        ELSE IF is_set(dtype) THEN _set_literal_format(dialect, op)
        ELSE UnsupportedType(dtype)

_array_literal_format(op) == Ok(PyStrList(op.value.elems))

\* BigQuery's struct literal, fields taken in the order of the struct type
bigquery_struct_literal(op) ==
    LET dtype == op.dtype
        cols == [i \in DOMAIN dtype.fields |->
                    TranslateLiteral("bigquery",
                        Literal(DictGet(op.value, names(dtype)[i]), types(dtype)[i]))]
    IN  IF AllOk(cols)
        THEN Ok(<<"STRUCT", "(">>
                \o Join(<<",">>, [i \in DOMAIN cols |->
                                     cols[i].text \o <<"AS", names(dtype)[i]>>])
                \o <<")">>)
        ELSE FirstRaise(cols)

\* BigQuery's rule of ops.Literal
bigquery_literal(op) ==
    LET dtype == op.dtype
        value == op.value
        fallback == LET r == literal("bigquery", op)
                    IN  IF IsRaise(r) /\ r.exc = "NotImplementedError"
                        THEN IF IsInstance(dtype, "Array")
                             THEN _array_literal_format(op)
                             ELSE UnsupportedType(dtype)
                        ELSE r
    IN  IF IsNone(value) THEN Ok(<<"NULL">>)
        ELSE IF is_decimal(dtype)
        THEN IF isnan(value)
             THEN Ok(<<"CAST", "(">> \o Quoted(<<"NaN">>) \o <<"AS", "FLOAT64", ")">>)
             ELSE IF isinf(value)
             THEN Ok(<<"CAST", "(">>
                     \o Quoted(<<(IF value.num = "-inf" THEN "-" ELSE "") \o "inf">>)
                     \o <<"AS", "FLOAT64", ")">>)
             ELSE Ok(<<ibis_type_to_bigquery_type(dtype)>> \o Quoted(PyStr(value)))
        ELSE IF is_uuid(dtype)
        THEN TranslateLiteral("bigquery", Literal(Str(PyStr(value)), DT("String")))
        ELSE IF IsInstance(dtype, "Numeric") /\ ~isfinite(value)
        THEN Ok(<<"CAST", "(">> \o PyReprStr(PyStr(value)) \o <<"AS", "FLOAT64", ")">>)
        ELSE IF IsInstance(dtype, "Date")
        THEN Ok(<<"DATE">> \o Quoted(PyStr(value)))
        ELSE IF IsInstance(dtype, "Timestamp")
        THEN Ok(<<"TIMESTAMP">> \o Quoted(PyStr(value)))
        ELSE IF IsInstance(dtype, "Time")
        THEN Ok(<<"TIME">> \o Quoted(PyStr(value)))
        ELSE IF IsInstance(dtype, "Binary")
        THEN Ok(<<"FROM_BASE64", "(">> \o Quoted(<<value.b64>>) \o <<")">>)
        ELSE IF is_struct(dtype) THEN bigquery_struct_literal(op)
        ELSE fallback

\* sa.literal(value): the host value as a SQL literal, quoted when it is a str
sa_literal(value) ==
    IF value.py = "str" THEN Quoted(Replace(value.s, Quote, <<Quote, Quote>>))
    ELSE IF IsNone(value) THEN <<"NULL">>
    ELSE PyStr(value)

\* sa.cast(expr, type)
sa_cast(text, sqla_type) == <<"CAST", "(">> \o text \o <<"AS", sqla_type, ")">>

\* sa.func.list_value(*values)
list_value(values) ==
    <<"list_value", "(">>
        \o Join(<<",">>, [i \in DOMAIN values |-> sa_literal(values[i])])
        \o <<")">>

\* struct_pack as compiled for duckdb: key := value in the order of the
\* mapping it was given
compiles_struct_pack(keys, values) ==
    <<"struct_pack", "(">>
        \o Join(<<",">>, [i \in DOMAIN keys |-> <<keys[i], ":=">> \o values[i]])
        \o <<")">>

\* DuckDB's struct literal: the mapping is built by iterating the value
duckdb_struct_literal(op) ==
    LET dtype == op.dtype
        items == op.value.items
        vals == [i \in DOMAIN items |->
                    TranslateLiteral("duckdb",
                        Literal(items[i][2], StructGetItem(dtype, items[i][1])))]
    IN  IF AllOk(vals)
        THEN Ok(compiles_struct_pack([i \in DOMAIN items |-> items[i][1]], Texts(vals)))
        ELSE FirstRaise(vals)

\* DuckDB's rule of ops.Literal
duckdb_literal(op) ==
    LET dtype == op.dtype
        value == op.value
        sqla_type == get_sqla_type(dtype)
    IN  IF IsNone(value) THEN Ok(<<"NULL">>)
        ELSE IF is_interval(dtype)
        THEN Ok(<<"INTERVAL">> \o Quoted(PyStr(value) \o <<resolution(dtype)>>))
        ELSE IF is_set(dtype) \/ is_array(dtype)
        THEN Ok(sa_cast(list_value(value.elems), sqla_type))
        ELSE IF is_floating(dtype)
        THEN LET v == IF isfinite(value) THEN value
                      ELSE IF isnan(value) THEN Str(<<"NaN">>)
                      ELSE Str(<<(IF value.num = "-inf" THEN "-" ELSE "") \o "Inf">>)
             IN  Ok(sa_cast(sa_literal(v), sqla_type))
        ELSE IF is_struct(dtype) THEN duckdb_struct_literal(op)
        ELSE IF is_string(dtype) THEN Ok(sa_literal(value))
        ELSE IF is_map(dtype)
        THEN Ok(<<"map", "(">>
                \o list_value([i \in DOMAIN value.items |-> value.items[i][1]])
                \o <<",">>
                \o list_value([i \in DOMAIN value.items |-> value.items[i][2]])
                \o <<")">>)
        ELSE Ok(sa_cast(sa_literal(value), sqla_type))

LiteralDialects == {"generic", "bigquery", "duckdb"}

\* translator.translate of a literal node: the dialect's rule of ops.Literal
TranslateLiteral(dialect, op) ==
    IF dialect = "generic" THEN literal(dialect, op)
    ELSE IF dialect = "bigquery" THEN bigquery_literal(op)
    ELSE duckdb_literal(op)

(***************************************************************************)
(* Decimal.                                                                *)
(***************************************************************************)
IsParam(p) == p # NoParam

IsIntegral(p) == p[1] = "int"

Val(p) == p[2]

Max(a, b) == IF a >= b THEN a ELSE b

Created(dtype) == [kind |-> "ok", value |-> dtype]

\* Decimal.__init__
Decimal__init__(precision, scale) ==
    IF IsParam(precision) /\ ~IsIntegral(precision)
    THEN Raise("TypeError", <<"Decimal type precision must be an integer">>)
    ELSE IF IsParam(precision) /\ Val(precision) < 0
    THEN Raise("ValueError", <<"Decimal type precision cannot be negative">>)
    ELSE IF IsParam(precision) /\ Val(precision) = 0
    THEN Raise("ValueError", <<"Decimal type precision cannot be zero">>)
    ELSE IF IsParam(scale) /\ ~IsIntegral(scale)
    THEN Raise("TypeError", <<"Decimal type scale must be an integer">>)
    ELSE IF IsParam(scale) /\ Val(scale) < 0
    THEN Raise("ValueError", <<"Decimal type scale cannot be negative">>)
    ELSE IF IsParam(scale) /\ IsParam(precision) /\ Val(precision) < Val(scale)
    THEN Raise("ValueError",
               <<"Decimal type precision must be greater than or equal to scale">>)
    ELSE Created(DecimalType(precision, scale))

\* a largest that pins the precision to 38
LargestPinned(self) ==
    Decimal__init__(IF IsParam(self.precision) THEN Param(38) ELSE NoParam,
                    IF IsParam(self.scale) THEN Param(Max(Val(self.scale), 2))
                    ELSE NoParam)

\* Decimal.largest
largest(self) ==
    Decimal__init__(IF IsParam(self.precision) THEN Param(Max(Val(self.precision), 38))
                    ELSE NoParam,
                    IF IsParam(self.scale) THEN Param(Max(Val(self.scale), 2))
                    ELSE NoParam)

(***************************************************************************)
(* Translation rules with argument checks.                                 *)
(***************************************************************************)
UnsupportedOperationError(msg) == Raise("UnsupportedOperationError", msg)

\* BigQuery ArrayIndex: the text, and the offset SAFE_OFFSET is given for an
\* array of length n and the index i
bigquery_array_index(arg, index) ==
    Ok(arg \o <<"[", "SAFE_OFFSET", "(">> \o index \o <<")", "]">>)

bigquery_array_index_offset(n, i) == i

\* DuckDB: if(idx < 0, array_length + greatest(idx, -array_length), idx)
duckdb_neg_idx_to_pos(n, idx) == IF idx < 0 THEN n + Max(idx, -n) ELSE idx

\* BigQuery ArraySlice's index converter: IF(idx < 0, ARRAY_LENGTH + idx, idx)
bigquery_neg_idx_to_pos(n, idx) == IF idx < 0 THEN n + idx ELSE idx

\* BigQuery ops.Hash
_hash(arg, how) ==
    IF how = "farm_fingerprint" THEN Ok(<<"farm_fingerprint", "(">> \o arg \o <<")">>)
    ELSE Raise("NotImplementedError", <<how>>)

\* BigQuery ops.StringFind; start and end are NoParam when None
_string_find(haystack, needle, start, end) ==
    IF IsParam(start)
    THEN Raise("NotImplementedError", <<"start not implemented for string find">>)
    ELSE IF IsParam(end)
    THEN Raise("NotImplementedError", <<"end not implemented for string find">>)
    ELSE Ok(<<"STRPOS", "(">> \o haystack \o <<",">> \o needle \o <<")", "-", "1">>)

\* BigQuery ops.NthValue; nth is [literal |-> BOOLEAN, value |-> n]
_nth_value(arg, nth) ==
    IF ~nth.literal
    THEN Raise("TypeError", <<"Bigquery nth must be a literal">>)
    ELSE Ok(<<"NTH_VALUE", "(">> \o arg \o <<",", ToString(nth.value + 1), ")">>)

\* BigQuery ops.TimestampFromUNIX
integer_to_timestamp(arg, unit) ==
    IF unit = "s" THEN Ok(<<"TIMESTAMP_SECONDS", "(">> \o arg \o <<")">>)
    ELSE IF unit = "ms" THEN Ok(<<"TIMESTAMP_MILLIS", "(">> \o arg \o <<")">>)
    ELSE IF unit = "us" THEN Ok(<<"TIMESTAMP_MICROS", "(">> \o arg \o <<")">>)
    ELSE IF unit = "ns"
    THEN Ok(<<"TIMESTAMP_MICROS", "(", "CAST", "(", "ROUND", "(">> \o arg
            \o <<"/", "1000", ")", "AS", "INT64", ")", ")">>)
    ELSE Raise("NotImplementedError", <<"cannot cast unit", unit>>)

\* BigQuery ops.Arbitrary
bigquery_arbitrary(arg, how) ==
    IF how # "first"
    THEN UnsupportedOperationError(<<how, "value not supported for arbitrary in", "BigQuery">>)
    ELSE Ok(<<"ANY_VALUE", "(">> \o arg \o <<")">>)

\* DuckDB ops.TimestampFromUNIX
_timestamp_from_unix(arg, unit) ==
    IF unit = "ms" THEN Ok(<<"epoch_ms", "(">> \o arg \o <<")">>)
    ELSE IF unit = "s" THEN Ok(<<"to_timestamp", "(">> \o arg \o <<")">>)
    ELSE UnsupportedOperationError(<<unit, "unit is not supported!">>)

\* the members of the unit enumerations, as <<enumeration, member>>
DateUnit == {<<"DateUnit", u>> : u \in {"YEAR", "QUARTER", "MONTH", "WEEK", "DAY"}}

TimeUnit ==
    {<<"TimeUnit", u>> :
         u \in {"HOUR", "MINUTE", "SECOND", "MILLISECOND", "MICROSECOND", "NANOSECOND"}}

IntervalUnit ==
    {<<"IntervalUnit", u>> :
         u \in {"YEAR", "QUARTER", "MONTH", "WEEK", "DAY", "HOUR", "MINUTE", "SECOND",
                "MILLISECOND", "MICROSECOND", "NANOSECOND"}}

TimestampUnit == {"s", "ms", "us", "ns"}

_DATE_UNITS == DateUnit

_TIME_UNITS == TimeUnit \ {<<"TimeUnit", "NANOSECOND">>}

\* an interval allow-list that keeps the nanosecond
IntervalUnitsWithNanosecond == IntervalUnit

_INTERVAL_UNITS == IntervalUnit \ {<<"IntervalUnit", "NANOSECOND">>}

_INTERVAL_DATE_UNITS ==
    _INTERVAL_UNITS \ {<<"IntervalUnit", u>> :
                           u \in {"HOUR", "MINUTE", "SECOND", "MILLISECOND", "MICROSECOND"}}

_INTERVAL_TIME_UNITS == _INTERVAL_UNITS \ _INTERVAL_DATE_UNITS

\* str / repr of an enumeration member
UnitName(unit) == unit[1] \o "." \o unit[2]

\* the rule _truncate(kind, units) builds
_truncate(kind, units, arg, dtype, unit) ==
    IF unit \notin units
    THEN UnsupportedOperationError(<<"BigQuery", "does not support truncating", dtype,
                        "values to unit", UnitName(unit)>>)
    ELSE Ok(<<kind \o "_TRUNC", "(">> \o arg
            \o <<",", (IF unit[2] = "WEEK" THEN "WEEK(MONDAY)" ELSE unit[2]), ")">>)

\* the rule _timestamp_op(func, units) builds; unit is the offset's unit
_timestamp_op(func, units, arg, offset, unit) ==
    IF unit \notin units
    THEN UnsupportedOperationError(<<"BigQuery", "does not allow binary operation", func,
                        "with INTERVAL offset", UnitName(unit)>>)
    ELSE Ok(<<func, "(">> \o arg \o <<",">> \o offset \o <<")">>)

UnitOps ==
    {"DateAdd", "DateSub", "DateTruncate", "TimeTruncate", "TimestampAdd",
     "TimestampSub", "TimestampTruncate"}

\* the entries of OPERATION_REGISTRY that take a unit, applied to arg and unit
UnitRule(kind, arg, unit) ==
    IF kind = "DateAdd"
    THEN _timestamp_op("DATE_ADD", _INTERVAL_DATE_UNITS, arg, <<"offset">>, unit)
    ELSE IF kind = "DateSub"
    THEN _timestamp_op("DATE_SUB", _INTERVAL_DATE_UNITS, arg, <<"offset">>, unit)
    ELSE IF kind = "DateTruncate"
    THEN _truncate("DATE", _DATE_UNITS \cup _INTERVAL_DATE_UNITS, arg, "date", unit)
    ELSE IF kind = "TimeTruncate"
    THEN _truncate("TIME", _TIME_UNITS \cup _INTERVAL_TIME_UNITS, arg, "time", unit)
    ELSE IF kind = "TimestampAdd"
    THEN _timestamp_op("TIMESTAMP_ADD", _INTERVAL_TIME_UNITS, arg, <<"offset">>, unit)
    ELSE IF kind = "TimestampSub"
    THEN _timestamp_op("TIMESTAMP_SUB", _INTERVAL_TIME_UNITS, arg, <<"offset">>, unit)
    ELSE _truncate("TIMESTAMP",
                   _DATE_UNITS \cup _TIME_UNITS \cup _INTERVAL_DATE_UNITS
                       \cup _INTERVAL_TIME_UNITS,
                   arg, "timestamp", unit)

\* the units each of these operations can carry
UnitsOf(kind) ==
    IF kind \in {"DateAdd", "DateSub", "TimestampAdd", "TimestampSub"} THEN IntervalUnit
    ELSE DateUnit \cup TimeUnit \cup IntervalUnit

(***************************************************************************)
(* Bounded inputs of the literal formatters.                               *)
(***************************************************************************)
MaxNum == 1

MaxStrLen == 3

MaxFields == 2

MaxElems == 2

Alphabet == {"a", Quote, Backslash}

NonFinite == {"nan", "inf", "-inf"}

IntegerClasses ==
    {"Int8", "Int16", "Int32", "Int64", "UInt8", "UInt16", "UInt32", "UInt64"}

FloatingClasses == {"Float16", "Float32", "Float64"}

IntOps ==
    {Literal(PyInt(n), DT(c)) : n \in 0..MaxNum, c \in IntegerClasses}
        \cup {Literal(PyInt(n), DT(c)) :
                  n \in (-MaxNum)..(-1), c \in {"Int8", "Int16", "Int32", "Int64"}}

FloatValues ==
    {PyFloat("finite", n) : n \in (-MaxNum)..MaxNum} \cup {PyFloat(x, 0) : x \in NonFinite}

DecValues ==
    {Dec("finite", n) : n \in (-MaxNum)..MaxNum} \cup {Dec(x, 0) : x \in NonFinite}

FloatOps == {Literal(v, DT(c)) : v \in FloatValues, c \in FloatingClasses}

DecimalOps ==
    {Literal(v, d) : v \in DecValues,
                     d \in {DecimalType(NoParam, NoParam), DecimalType(Param(10), Param(2))}}

NumberOps == IntOps \cup FloatOps \cup DecimalOps

Strings == SeqsUpTo(Alphabet, MaxStrLen)

StringOps == {Literal(Str(s), DT(c)) : s \in Strings, c \in {"String"}}

BoolOps == {Literal(PyBool(b), DT("Boolean")) : b \in BOOLEAN}

TemporalOps ==
    {Literal(Date("2020-01-02"), DT("Date")),
     Literal(Str(<<"2020-01-02">>), DT("Date")),
     Literal(Datetime("2020-01-02T03:04:05"), DT("Timestamp")),
     Literal(Str(<<"2020-01-02 03:04:05">>), DT("Timestamp")),
     Literal(Time("03:04:05"), DT("Time"))}

IntervalOps == {Literal(PyInt(n), IntervalType(u)) : n \in 0..MaxNum, u \in {"day", "second"}}

\* sequences over S without repetition, of length 1..n
RECURSIVE DistinctSeqs(_, _)
DistinctSeqs(S, n) ==
    IF n = 0 \/ S = {} THEN {}
    ELSE {<<x>> : x \in S}
             \cup {<<p[1]>> \o p[2] :
                       p \in {q \in S \X DistinctSeqs(S, n - 1) : q[1] \notin Range(q[2])}}

\* the type and the values of each struct field used
FieldType ==
    "a" :> DT("Int64") @@ "b" :> DT("Float64") @@ "c" :> DT("String")

FieldValues ==
       "a" :> {PyInt(1), None}
    @@ "b" :> {PyFloat("finite", 1), PyFloat("nan", 0)}
    @@ "c" :> {Str(<<"a">>)}

StructTypes ==
    {StructType([i \in DOMAIN ns |-> <<ns[i], FieldType[ns[i]]>>]) :
         ns \in DistinctSeqs(DOMAIN FieldType, MaxFields)}

\* every mapping that holds one value per field of dtype, in every
\* iteration order
StructValues(dtype) ==
    LET fs == Range(names(dtype))
        orders == {o \in DistinctSeqs(fs, Cardinality(fs)) : Len(o) = Cardinality(fs)}
        choices == {f \in [fs -> UNION {FieldValues[k] : k \in fs}] :
                        \A k \in fs : f[k] \in FieldValues[k]}
    IN  {Dict([i \in DOMAIN o |-> <<o[i], f[o[i]]>>]) : o \in orders, f \in choices}

StructOps == UNION {{Literal(v, d) : v \in StructValues(d)} : d \in StructTypes}

Elems == SeqsUpTo({None, PyInt(1)}, MaxElems)

\* arrays of floats and of strings, with a non-finite and a quoted element
TypedElems ==
    {<<DT("Float64"), PyFloat("finite", 1)>>, <<DT("Float64"), PyFloat("nan", 0)>>,
     <<DT("String"), Str(<<"a">>)>>, <<DT("String"), Str(<<"a", Quote>>)>>}

CollectionOps ==
    {Literal(List(e), d) : e \in Elems, d \in {ArrayType(DT("Int64")), SetType(DT("Int64"))}}
        \cup {Literal(List(<<te[2]>>), ArrayType(te[1])) : te \in TypedElems}

OtherOps ==
    {Literal(Bytes("YQ=="), DT("Binary")),
     Literal(Uuid(<<"u">>), DT("UUID")),
     Literal(Str(<<"{}">>), DT("JSON")),
     Literal(Dict(<<<<Str(<<"a">>), PyInt(1)>>>>), MapType(DT("String"), DT("Int64")))}

\* one data type of every concrete class
AllDtypes ==
    {DT(c) : c \in {"Null", "Boolean", "String", "Binary", "Date", "Time", "Timestamp",
                    "JSON", "GeoSpatial", "Point", "LineString", "Polygon",
                    "MultiLineString", "MultiPoint", "MultiPolygon", "UUID",
                    "MACADDR", "INET", "Unknown"}
                   \cup IntegerClasses \cup FloatingClasses}
        \cup {DecimalType(Param(10), Param(2)), IntervalType("day"), ArrayType(DT("Int64")),
              SetType(DT("Int64")), MapType(DT("String"), DT("Int64"))}
        \cup StructTypes

NoneOps == {Literal(None, d) : d \in AllDtypes}

LiteralOps ==
    NoneOps \cup NumberOps \cup StringOps \cup BoolOps \cup TemporalOps
        \cup IntervalOps \cup StructOps \cup CollectionOps \cup OtherOps

(***************************************************************************)
(* Bounded inputs of Decimal and of the translation rules.                 *)
(***************************************************************************)
MaxPrecision == 40

MaxArrayLen == 3

ParamValues == {NoParam, NonIntegral(1)} \cup {Param(n) : n \in (-1)..MaxPrecision}

ValidDecimals ==
    {DecimalType(p, s) : p, s \in {x \in ParamValues : x = NoParam \/ IsIntegral(x)}}

ArrayLengths == 0..MaxArrayLen

ArrayIndexes == (-MaxArrayLen - 1)..(MaxArrayLen + 1)

HashHows == {"fnv", "farm_fingerprint"}

ArbitraryHows == {"first", "last", "heavy"}

FindBounds == {NoParam} \cup {Param(n) : n \in 0..MaxNum}

NthArgs ==
    {[literal |-> TRUE, value |-> n] : n \in 0..MaxNum}
        \cup {[literal |-> FALSE, value |-> 0]}

(***************************************************************************)
(* Specification of the pure functions: the caller is idle, calls one of   *)
(* them on an input drawn from a bounded set, and takes the result.        *)
(***************************************************************************)
Idle == call = "idle"

Threads == {"t1", "t2"}

\* a thread that runs no compilation
NoCompilation == [pc |-> "idle"]

Call(name, a, r) ==
    /\ call' = name
    /\ args' = a
    /\ ret' = r
    /\ UNCHANGED <<registries, compilations, pandas, grouped>>

\* the caller takes the result and is ready for the next call
Return ==
    /\ call # "idle"
    /\ call' = "idle"
    /\ args' = <<>>
    /\ ret' = Ok(<<>>)
    /\ UNCHANGED <<registries, compilations, pandas, grouped>>

\* translator.translate(ops.Literal(value, dtype)) in a dialect
FormatLiteral(dialect, op) ==
    /\ Idle
    /\ Call("literal", [dialect |-> dialect, op |-> op], TranslateLiteral(dialect, op))

\* Decimal(precision, scale)
NewDecimal(precision, scale) ==
    /\ Idle
    /\ Call("Decimal", [precision |-> precision, scale |-> scale],
         Decimal__init__(precision, scale))

\* self.largest of a constructed Decimal
Largest(self) ==
    /\ Idle
    /\ IsOk(Decimal__init__(self.precision, self.scale))
    /\ Call("largest", [self |-> self], largest(self))

\* the ArrayIndex rule of a dialect on an array of length n
ArrayIndex(dialect, n, i) ==
    /\ Idle
    /\ Call("ArrayIndex", [dialect |-> dialect, n |-> n, index |-> i],
         IF dialect = "bigquery"
         THEN [kind |-> "ok",
               text |-> bigquery_array_index(<<"arr">>, <<ToString(i)>>).text,
               offset |-> bigquery_array_index_offset(n, i)]
         ELSE [kind |-> "ok",
               text |-> <<"list_extract">>,
               offset |-> duckdb_neg_idx_to_pos(n, i)])

Hash(how) ==
    /\ Idle
    /\ Call("Hash", [dialect |-> "bigquery", how |-> how], _hash(<<"x">>, how))

StringFind(start, end) ==
    /\ Idle
    /\ Call("StringFind", [dialect |-> "bigquery", start |-> start, end |-> end],
         _string_find(<<"x">>, <<"y">>, start, end))

NthValue(nth) ==
    /\ Idle
    /\ Call("NthValue", [dialect |-> "bigquery", nth |-> nth], _nth_value(<<"x">>, nth))

TimestampFromUNIX(dialect, unit) ==
    /\ Idle
    /\ Call("TimestampFromUNIX", [dialect |-> dialect, unit |-> unit],
         IF dialect = "bigquery" THEN integer_to_timestamp(<<"x">>, unit)
         ELSE _timestamp_from_unix(<<"x">>, unit))

Arbitrary(how) ==
    /\ Idle
    /\ Call("Arbitrary", [dialect |-> "bigquery", how |-> how],
         bigquery_arbitrary(<<"x">>, how))

\* a BigQuery truncation or date/timestamp add/sub rule
UnitOp(kind, unit) ==
    /\ Idle
    /\ Call("UnitOp", [dialect |-> "bigquery", op |-> kind, unit |-> unit],
         UnitRule(kind, <<"x">>, unit))

\* BaseBackend.compile
Compile(dialect, expr) ==
    /\ Idle
    /\ Call("compile", [dialect |-> dialect, expr |-> expr],
         Translate(dialect, RegistryOf(dialect), expr))

(***************************************************************************)
(* Selections: chains of select, filter and mutate over a relation, their  *)
(* step-by-step evaluation and their fusion.  A relation is a sequence of  *)
(* rows; a row gives each column of the base relation a value, and the     *)
(* relation says which columns are in its schema.                          *)
(***************************************************************************)
Columns == {"int_col", "float_col"}

Relation(rows, cols) == [rows |-> rows, cols |-> cols]

SelectStep(cols) == [op |-> "select", cols |-> cols]

\* filter(parent[col] == 1): the predicate is bound to the parent relation
FilterStep(col) == [op |-> "filter", col |-> col]

\* mutate(col=1 - parent[col]): redefines col from its earlier definition
MutateStep(col) == [op |-> "mutate", col |-> col]

\* one step evaluated on the relation the step before it gave; a predicate
\* reads its column in the relation it is bound to, also when the select
\* just before it did not keep the column
ExecuteStep(step, rel) ==
    IF step.op = "select" THEN Relation(rel.rows, step.cols)
    ELSE IF step.op = "filter"
    THEN Relation(SelectSeq(rel.rows, LAMBDA r : r[step.col] = 1), rel.cols)
    ELSE Relation([i \in DOMAIN rel.rows |->
                      [rel.rows[i] EXCEPT ![step.col] = 1 - rel.rows[i][step.col]]],
                  rel.cols \cup {step.col})

\* the plan evaluated step by step, first step first
RECURSIVE Unfused(_, _)
Unfused(plan, rel) ==
    IF plan = <<>> THEN rel
    ELSE Unfused(Tail(plan), ExecuteStep(Head(plan), rel))

\* a fusion that evaluates a filter after the mutate that follows it
RECURSIVE FuseMutateFirst(_)
FuseMutateFirst(plan) ==
    IF Len(plan) < 2 THEN plan
    ELSE IF plan[1].op = "filter" /\ plan[2].op = "mutate"
    THEN <<plan[2]>> \o FuseMutateFirst(<<plan[1]>> \o SubSeq(plan, 3, Len(plan)))
    ELSE <<plan[1]>> \o FuseMutateFirst(Tail(plan))

\* the fusion rule: a filter right after a select is pushed below the
\* select; a mutate is a boundary no filter crosses
RECURSIVE try_fusion(_)
try_fusion(plan) ==
    IF Len(plan) < 2 THEN plan
    ELSE LET rest == try_fusion(Tail(plan))
         IN  IF plan[1].op = "select" /\ rest # <<>> /\ rest[1].op = "filter"
             THEN <<rest[1]>> \o try_fusion(<<plan[1]>> \o Tail(rest))
             ELSE <<plan[1]>> \o rest

\* a fused plan executed: a step sees only the columns of the schema it is
\* given, and a filter on a column that is not among them fails
RECURSIVE Execute(_, _)
Execute(plan, rel) ==
    IF plan = <<>> THEN Created(rel)
    ELSE IF Head(plan).op = "filter" /\ Head(plan).col \notin rel.cols
    THEN Raise("IbisTypeError", <<Head(plan).col>>)
    ELSE Execute(Tail(plan), ExecuteStep(Head(plan), rel))

\* the rows of a relation as its schema shows them
Visible(rel) == [i \in DOMAIN rel.rows |-> Restrict(rel.rows[i], rel.cols)]

\* every predicate of the plan reads a column of the relation it is bound
\* to: one of the schema, or one the selects just before the filter dropped
RECURSIVE Bound(_, _, _)
Bound(plan, cols, before) ==
    IF plan = <<>> THEN TRUE
    ELSE LET step == Head(plan)
         IN  IF step.op = "select"
             THEN step.cols \subseteq cols /\ Bound(Tail(plan), step.cols, before)
             ELSE IF step.op = "filter"
             THEN step.col \in before /\ Bound(Tail(plan), cols, before)
             ELSE Bound(Tail(plan), cols \cup {step.col}, cols \cup {step.col})

MaxRows == 2

MaxPlanLen == 3

Rows == [Columns -> {0, 1}]

Steps ==
    {SelectStep(cols) : cols \in SUBSET Columns \ {{}}}
        \cup {FilterStep(c) : c \in Columns} \cup {MutateStep(c) : c \in Columns}

Plans == {p \in SeqsUpTo(Steps, MaxPlanLen) : p # <<>> /\ Bound(p, Columns, Columns)}

Tables == {Relation(rows, Columns) : rows \in SeqsUpTo(Rows, MaxRows)}

\* expr.execute() of the chain over the table, next to its step-by-step
\* evaluation
ExecuteChain(table, plan) ==
    /\ Idle
    /\ Call("execute", [table |-> table, plan |-> plan, fused |-> try_fusion(plan),
                        unfused |-> Visible(Unfused(plan, table))],
            LET r == Execute(try_fusion(plan), table)
            IN  IF IsOk(r) THEN [kind |-> "ok", rows |-> Visible(r.value)] ELSE r)

(***************************************************************************)
(* BigQuery casts and null handling, and the value the engine gives the    *)
(* emitted text.  An engine value is SqlNull, [type, v] for a number of a  *)
(* SQL type, or [type, micros] for a timestamp.                            *)
(***************************************************************************)
\* Interval.resolution.upper()
UpperResolution == "s" :> "SECOND" @@ "D" :> "DAY"

\* the bigquery_cast dispatcher on (compiled_arg, from_, to): the most
\* specific registered signature is called
bigquery_cast(compiled_arg, from_, to) ==
    IF IsInstance(from_, "Timestamp") /\ IsInstance(to, "Integer")
    THEN <<"UNIX_MICROS", "(">> \o compiled_arg \o <<")">>
    ELSE IF IsInstance(from_, "Integer") /\ IsInstance(to, "Timestamp")
    THEN <<"TIMESTAMP_SECONDS", "(">> \o compiled_arg \o <<")">>
    ELSE IF IsInstance(from_, "Interval") /\ IsInstance(to, "Integer")
    THEN <<"EXTRACT", "(", UpperResolution[resolution(from_)], "from">>
         \o compiled_arg \o <<")">>
    ELSE <<"CAST", "(">> \o compiled_arg \o <<"AS", ibis_type_to_bigquery_type(to), ")">>

\* bigquery_cast on (compiled_arg, to)
bigquery_cast_generate_simple(compiled_arg, to) == bigquery_cast(compiled_arg, to, to)

\* BigQuery ops.Cast
_cast(arg_formatted, input_dtype, target_type) ==
    Ok(bigquery_cast(arg_formatted, input_dtype, target_type))

\* fixed_arity(func_name, 2)
fixed_arity2(func_name, left, right) ==
    Ok(<<func_name, "(">> \o left \o <<",">> \o right \o <<")">>)

\* a zeroifnull rule built on NULLIF
ZeroIfNullAsNullIf(arg, output_dtype) ==
    Ok(<<"NULLIF", "(">> \o arg \o <<",">>
       \o bigquery_cast_generate_simple(<<"0">>, output_dtype) \o <<")">>)

_nullifzero(arg, output_dtype) ==
    Ok(<<"NULLIF", "(">> \o arg \o <<",">>
       \o bigquery_cast_generate_simple(<<"0">>, output_dtype) \o <<")">>)

_zeroifnull(arg, output_dtype) ==
    Ok(<<"COALESCE", "(">> \o arg \o <<",">>
       \o bigquery_cast_generate_simple(<<"0">>, output_dtype) \o <<")">>)

SqlNull == [type |-> "NULL"]

SqlNumber(type, v) == [type |-> type, v |-> v]

SqlTimestamp(micros) == [type |-> "TIMESTAMP", micros |-> micros]

\* the number of ( less the number of ) among the first i pieces
RECURSIVE Depth(_, _)
Depth(text, i) ==
    IF i = 0 THEN 0
    ELSE Depth(text, i - 1)
         + (IF text[i] = "(" THEN 1 ELSE IF text[i] = ")" THEN -1 ELSE 0)

\* the position of the comma between the two arguments of a call
ArgComma(text) ==
    CHOOSE i \in DOMAIN text : text[i] = "," /\ Depth(text, i) = 1

\* the value the engine gives an emitted expression, env giving the values
\* of the column references and the literal 0
RECURSIVE EvalSql(_, _)
EvalSql(text, env) ==
    IF Len(text) = 1 THEN env[text[1]]
    ELSE LET inner == SubSeq(text, 3, Len(text) - 1)
         IN  IF text[1] = "CAST"
             THEN LET v == EvalSql(SubSeq(text, 3, Len(text) - 3), env)
                  IN  IF v = SqlNull THEN SqlNull
                      ELSE SqlNumber(text[Len(text) - 1], v.v)
             ELSE IF text[1] = "TIMESTAMP_SECONDS"
             THEN LET v == EvalSql(inner, env)
                  IN  IF v = SqlNull THEN SqlNull ELSE SqlTimestamp(v.v * 1000000)
             ELSE IF text[1] = "UNIX_MICROS"
             THEN LET v == EvalSql(inner, env)
                  IN  IF v = SqlNull THEN SqlNull ELSE SqlNumber("INT64", v.micros)
             ELSE LET c == ArgComma(text)
                      left == EvalSql(SubSeq(text, 3, c - 1), env)
                      right == EvalSql(SubSeq(text, c + 1, Len(text) - 1), env)
                  IN  IF text[1] = "COALESCE"
                      THEN IF left = SqlNull THEN right ELSE left
                      ELSE \* NULLIF
                           IF left # SqlNull /\ right # SqlNull /\ left.v = right.v
                           THEN SqlNull ELSE left

NumericTypes == {DT("Int64"), DT("Int8"), DT("Float64")}

\* the values of a column of a numeric type
SqlValues(dtype) ==
    {SqlNull} \cup {SqlNumber(ibis_type_to_bigquery_type(dtype), n) : n \in (-MaxNum)..MaxNum}

\* the types casts are asked between
CastTypes ==
    {DT("Int64"), DT("UInt8"), DT("Float64"), DT("String"), DT("Timestamp"), DT("Date"),
     IntervalType("s"), IntervalType("D")}

\* x.zeroifnull(), x.nullifzero() and x.nullif(y) in BigQuery, x and y
\* columns of type dtype: the text and its value
NullHandling(kind, dtype, x, y) ==
    LET r == IF kind = "ZeroIfNull" THEN _zeroifnull(<<"x">>, dtype)
             ELSE IF kind = "NullIfZero" THEN _nullifzero(<<"x">>, dtype)
             ELSE fixed_arity2("NULLIF", <<"x">>, <<"y">>)
        env == "x" :> x @@ "y" :> y @@ "0" :> SqlNumber("INT64", 0)
    IN  /\ Idle
        /\ Call(kind, [dialect |-> "bigquery", dtype |-> dtype, x |-> x, y |-> y],
                [kind |-> "ok", text |-> r.text, value |-> EvalSql(r.text, env)])

\* x.cast(to) in BigQuery, x a column of type from_
Cast(from_, to) ==
    /\ Idle
    /\ Call("Cast", [dialect |-> "bigquery", from_ |-> from_, to |-> to],
            _cast(<<"x">>, from_, to))

\* x.cast("timestamp").cast("int64") in BigQuery, x an int64 column
CastRoundTrip(x) ==
    LET there == _cast(<<"x">>, DT("Int64"), DT("Timestamp"))
        back == _cast(there.text, DT("Timestamp"), DT("Int64"))
    IN  /\ Idle
        /\ Call("CastRoundTrip", [dialect |-> "bigquery", x |-> x],
                [kind |-> "ok", text |-> back.text,
                 timestamp |-> EvalSql(there.text, "x" :> x),
                 value |-> EvalSql(back.text, "x" :> x)])

\* BigQuery _neg_idx_to_pos: the text
_neg_idx_to_pos(array, idx) ==
    <<"IF", "(">> \o idx \o <<"<", "0", ",", "ARRAY_LENGTH", "(">> \o array
    \o <<")", "+">> \o idx \o <<",">> \o idx \o <<")">>

\* BigQuery ops.ArraySlice: the text; stop is NoParam when op.stop is None
_array_slice(arg, start, stop) ==
    LET cond == <<<<"index", ">=">> \o _neg_idx_to_pos(arg, <<ToString(Val(start))>>)>>
                \o (IF IsParam(stop)
                    THEN <<<<"index", "<">> \o _neg_idx_to_pos(arg, <<ToString(Val(stop))>>)>>
                    ELSE <<>>)
    IN  Ok(<<"ARRAY", "(", "SELECT", "el", "FROM", "UNNEST", "(">> \o arg
           \o <<")", "AS", "el", "WITH", "OFFSET", "index", "WHERE">>
           \o Join(<<"AND">>, cond) \o <<")">>)

\* the WHERE condition of _array_slice for the element at offset index of
\* an array of length n
array_slice_where(n, index, start, stop) ==
    /\ index >= bigquery_neg_idx_to_pos(n, Val(start))
    /\ IsParam(stop) => index < bigquery_neg_idx_to_pos(n, Val(stop))

\* the arrays ARRAY(SELECT ... WHERE ...) may give: the selected elements
\* (named by their offsets) in any order, the subquery having no ORDER BY
array_slice_results(n, start, stop) ==
    LET selected == {index \in 0..(n - 1) : array_slice_where(n, index, start, stop)}
    IN  IF selected = {} THEN {<<>>}
        ELSE {r \in DistinctSeqs(selected, Cardinality(selected)) :
                  Len(r) = Cardinality(selected)}

SliceStops == {NoParam} \cup {Param(i) : i \in ArrayIndexes}

\* arr[start:stop] in BigQuery on an array of length n
ArraySlice(n, start, stop, elements) ==
    /\ Idle
    /\ elements \in array_slice_results(n, start, stop)
    /\ Call("ArraySlice", [dialect |-> "bigquery", n |-> n, start |-> start, stop |-> stop],
            [kind |-> "ok", text |-> _array_slice(<<"arr">>, start, stop).text,
             elements |-> elements])

(***************************************************************************)
(* Type inference from host values and type hints.  A host class is        *)
(* [name, mro, annots]: its name, the names of the classes it is a         *)
(* subclass of, and its annotations as a sequence of <<name, hint>>; a     *)
(* generic alias such as List[int] is [origin, hints].                     *)
(***************************************************************************)
PyType(name, mro, annots) ==
    [py |-> "type", name |-> name, mro |-> mro \cup {name, "object"}, annots |-> annots]

Alias(origin, hints) == [py |-> "alias", origin |-> origin, hints |-> hints]

NumpyDtype(name) == [py |-> "numpy.dtype", name |-> name]

\* issubclass of the abstract base classes the dispatcher tests
OriginBases ==
    "list" :> {"Sequence"} @@ "tuple" :> {"Sequence"} @@ "dict" :> {"Mapping"}
    @@ "set" :> {"Set"} @@ "Callable" :> {}

_python_dtypes ==
    "bool" :> DT("Boolean") @@ "int" :> DT("Int64") @@ "float" :> DT("Float64")
    @@ "str" :> DT("String") @@ "bytes" :> DT("Binary") @@ "date" :> DT("Date")
    @@ "time" :> DT("Time") @@ "datetime" :> DT("Timestamp")
    @@ "timedelta" :> IntervalType("s")
    @@ "Decimal" :> DecimalType(NoParam, NoParam) @@ "UUID" :> DT("UUID")

_numpy_dtypes ==
    "bool" :> DT("Boolean") @@ "int8" :> DT("Int8") @@ "int64" :> DT("Int64")
    @@ "uint8" :> DT("UInt8") @@ "float64" :> DT("Float64")
    @@ "datetime64[ns]" :> DT("Timestamp") @@ "timedelta64[ns]" :> IntervalType("ns")

from_ibis_dtype(value) == Created(value)

from_numpy_dtype(value) ==
    IF value.name \in DOMAIN _numpy_dtypes THEN Created(_numpy_dtypes[value.name])
    ELSE Raise("TypeError", <<"numpy dtype is not supported">>)

\* (value_type, ...) = map(dtype, get_args(value)) for n targets: the
\* unpacking draws at most n + 1 results
Unpack(results, n) ==
    LET drawn == SubSeq(results, 1, IF Len(results) > n THEN n + 1 ELSE Len(results))
    IN  IF \E i \in DOMAIN drawn : IsRaise(drawn[i]) THEN FirstRaise(drawn)
        ELSE IF Len(drawn) # n THEN Raise("ValueError", <<"values to unpack">>)
        ELSE [kind |-> "ok", values |-> [i \in DOMAIN drawn |-> drawn[i].value]]

RECURSIVE dtype_from_object(_), Dispatch(_)

\* the dtype dispatcher: the overload of the value's class
Dispatch(value) ==
    IF value.py = "DataType" THEN from_ibis_dtype(value.dtype)
    ELSE IF value.py = "numpy.dtype" THEN from_numpy_dtype(value)
    ELSE dtype_from_object(value)

dtype_from_object(value) ==
    IF value.py # "alias"
    THEN IF value.py = "type"
         THEN IF "DataType" \in value.mro THEN Created(DT(value.name))
              ELSE IF value.name \in DOMAIN _python_dtypes
                   THEN Created(_python_dtypes[value.name])
              ELSE IF value.annots # <<>>
                   THEN LET annots == [i \in DOMAIN value.annots |->
                                          Dispatch(value.annots[i][2])]
                        IN  IF \E i \in DOMAIN annots : IsRaise(annots[i])
                            THEN FirstRaise(annots)
                            ELSE Created(StructType(
                                     [i \in DOMAIN annots |->
                                         <<value.annots[i][1], annots[i].value>>]))
              ELSE IF "bytes" \in value.mro
                   THEN [kind |-> "ok", value |-> PyType("bytes", {}, <<>>)]
              ELSE IF "str" \in value.mro THEN Created(DT("String"))
              ELSE IF "Integral" \in value.mro THEN Created(DT("Int64"))
              ELSE IF "Real" \in value.mro THEN Created(DT("Float64"))
              ELSE IF value.name = "NoneType" THEN Created(DT("Null"))
              ELSE Raise("TypeError",
                         <<"Cannot construct an ibis datatype from python type">>)
         ELSE Raise("TypeError",
                    <<"Cannot construct an ibis datatype from python value">>)
    ELSE LET results == [i \in DOMAIN value.hints |-> Dispatch(value.hints[i])]
         IN  IF "Sequence" \in OriginBases[value.origin]
             THEN LET r == Unpack(results, 1)
                  IN  IF IsRaise(r) THEN r ELSE Created(ArrayType(r.values[1]))
             ELSE IF "Mapping" \in OriginBases[value.origin]
             THEN LET r == Unpack(results, 2)
                  IN  IF IsRaise(r) THEN r
                      ELSE Created(MapType(r.values[1], r.values[2]))
             ELSE IF "Set" \in OriginBases[value.origin]
             THEN LET r == Unpack(results, 1)
                  IN  IF IsRaise(r) THEN r ELSE Created(SetType(r.values[1]))
             ELSE Raise("TypeError", <<"Value is not a valid datatype">>)

MaxHintArgs == 2

\* host classes: the keys of _python_dtypes, subclasses of builtins, data
\* type classes, NoneType and a class of no recognized shape
PlainClasses ==
    {PyType(n, {}, <<>>) : n \in {"int", "str", "bytes", "date", "NoneType", "Widget"}}
    \cup {PyType("MyBytes", {"bytes"}, <<>>), PyType("MyStr", {"str"}, <<>>),
          PyType("MyInt", {"int", "Integral", "Real"}, <<>>),
          PyType("MyFloat", {"float", "Real"}, <<>>),
          PyType("Int32", {"DataType"}, <<>>)}

\* hints that may stand inside an annotation or a generic alias
InnerHints == {PyType(n, {}, <<>>) : n \in {"int", "str", "Widget"}}

AnnotatedClasses ==
    {PyType("Point2D", {}, <<<<"x", a>>, <<"y", b>>>>) : a, b \in InnerHints}

Aliases ==
    {Alias(o, hints) : o \in DOMAIN OriginBases,
                       hints \in SeqsUpTo(InnerHints, MaxHintArgs)}

HostValues ==
    PlainClasses \cup AnnotatedClasses \cup Aliases
    \cup {NumpyDtype(n) : n \in {"int8", "float64", "complex128"}}
    \cup {[py |-> "DataType", dtype |-> DT("Int64")], [py |-> "object"]}

\* dt.dtype(value)
Infer(value) ==
    /\ Idle
    /\ Call("dtype", [value |-> value], Dispatch(value))

\* Integer.nbytes of the fixed-size integer classes
nbytes ==
    "Int8" :> 1 @@ "Int16" :> 2 @@ "Int32" :> 4 @@ "Int64" :> 8
    @@ "UInt8" :> 1 @@ "UInt16" :> 2 @@ "UInt32" :> 4 @@ "UInt64" :> 8

\* host integers are unbounded: the integer sign * 2^pow + plus
Big(sign, pow, plus) == [sign |-> sign, pow |-> pow, plus |-> plus]

\* 1 << exp
Shl1(exp) == Big(1, exp, 0)

\* x - 1
Minus1(x) == Big(x.sign, x.pow, x.plus - 1)

\* ~x, which is -x - 1
Invert(x) == Big(-x.sign, x.pow, -x.plus - 1)

\* Interval.value_type, Int32() unless given
value_type(self) ==
    IF "value_type" \in DOMAIN self THEN self.value_type ELSE DT("Int32")

\* SignedInteger.bounds, UnsignedInteger.bounds and Interval.bounds
RECURSIVE bounds(_)
bounds(self) ==
    IF is_signed_integer(self)
    THEN LET exp == nbytes[self.cls] * 8 - 1
             upper == Minus1(Shl1(exp))
         IN  [lower |-> Invert(upper), upper |-> upper]
    ELSE IF is_unsigned_integer(self)
    THEN LET exp == nbytes[self.cls] * 8 - 1
             upper == Shl1(exp)
         IN  [lower |-> Big(0, 0, 0), upper |-> upper]
    ELSE bounds(value_type(self))

\* the types that have bounds
BoundedTypes ==
    {DT(c) : c \in IntegerClasses}
    \cup {IntervalType(u) : u \in {"s", "D"}}
    \cup {[cls |-> "Interval", unit |-> "s", value_type |-> DT(c)] : c \in IntegerClasses}

\* self.bounds
BoundsOf(self) ==
    /\ Idle
    /\ Call("bounds", [self |-> self], [kind |-> "ok", bounds |-> bounds(self)])

\* the concrete data types, one of each class
ConcreteTypes ==
    {DT(c) : c \in {"Null", "Boolean", "Unknown", "Int8", "Int64", "UInt8", "UInt64",
                    "Float16", "Float64", "String", "Binary", "Date", "Time",
                    "Timestamp", "JSON", "GeoSpatial", "Point", "Polygon", "UUID",
                    "MACADDR", "INET"}}
    \cup {DecimalType(NoParam, NoParam), IntervalType("s"),
          StructType(<<<<"a", DT("Int64")>>>>), ArrayType(DT("Int64")),
          SetType(DT("String")), MapType(DT("String"), DT("Int64"))}

\* the kind predicates of one data type
KindPredicates(self) ==
    /\ Idle
    /\ Call("is_",
            [self |-> self],
            [kind |-> "ok",
             is_integer |-> is_integer(self),
             is_signed_integer |-> is_signed_integer(self),
             is_unsigned_integer |-> is_unsigned_integer(self),
             is_floating |-> is_floating(self),
             is_numeric |-> is_numeric(self),
             is_temporal |-> is_temporal(self),
             is_date |-> is_date(self),
             is_time |-> is_time(self),
             is_timestamp |-> is_timestamp(self),
             is_variadic |-> is_variadic(self),
             is_string |-> is_string(self),
             is_binary |-> is_binary(self),
             is_array |-> is_array(self),
             is_set |-> is_set(self),
             is_map |-> is_map(self),
             is_json |-> is_json(self)])

(***************************************************************************)
(* The pandas backend.  self is [dictionary, schemas]: the data frames by  *)
(* table name and the recorded schemas by table name.  A data frame is     *)
(* [py, schema], schema being the schema of its columns.                   *)
(***************************************************************************)
DataFrame(schema) == [py |-> "DataFrame", schema |-> schema]

\* mapping without key
Del(mapping, key) == [k \in DOMAIN mapping \ {key} |-> mapping[k]]

\* BasePandasBackend.list_tables
list_tables(self) == DOMAIN self.dictionary

\* BasePandasBackend.table: sch.infer(df, schema=s) is s when s is given
\* and the data frame's own schema otherwise
Backend_table(self, name, schema) ==
    IF name \notin DOMAIN self.dictionary THEN Raise("KeyError", <<name>>)
    ELSE LET df == self.dictionary[name]
             given == IF ~IsNone(schema) THEN schema
                      ELSE IF name \in DOMAIN self.schemas THEN self.schemas[name]
                      ELSE None
         IN  Created([name |-> name,
                      schema |-> IF IsNone(given) THEN df.schema ELSE given])

\* a create_table that stores before it looks for an existing table
CreateTableStoreFirst(self, name, obj, schema, overwrite) ==
    IF IsNone(obj) /\ IsNone(schema)
    THEN [ret |-> Raise("IbisError", <<"The schema or obj parameter is required">>),
          self |-> self]
    ELSE LET df == IF ~IsNone(obj) THEN obj ELSE DataFrame(schema)
             stored == [dictionary |-> (name :> df) @@ self.dictionary,
                        schemas |-> IF ~IsNone(schema)
                                    THEN (name :> schema) @@ self.schemas
                                    ELSE self.schemas]
         IN  IF name \in DOMAIN self.dictionary /\ ~overwrite
             THEN [ret |-> Raise("IbisError", <<"Cannot overwrite existing table">>),
                   self |-> stored]
             ELSE [ret |-> Backend_table(stored, name, None), self |-> stored]

\* BasePandasBackend.create_table: the result and the backend afterwards
create_table(self, name, obj, schema, overwrite) ==
    IF IsNone(obj) /\ IsNone(schema)
    THEN [ret |-> Raise("IbisError", <<"The schema or obj parameter is required">>),
          self |-> self]
    ELSE LET df == IF ~IsNone(obj) THEN obj ELSE DataFrame(schema)
         IN  IF name \in DOMAIN self.dictionary /\ ~overwrite
             THEN [ret |-> Raise("IbisError", <<"Cannot overwrite existing table">>),
                   self |-> self]
             ELSE LET stored == [dictionary |-> (name :> df) @@ self.dictionary,
                                 schemas |-> IF ~IsNone(schema)
                                             THEN (name :> schema) @@ self.schemas
                                             ELSE self.schemas]
                  IN  [ret |-> Backend_table(stored, name, None), self |-> stored]

\* BasePandasBackend.drop_table: the result and the backend afterwards
drop_table(self, name, force) ==
    IF ~force /\ name \in DOMAIN self.dictionary
    THEN [ret |-> Raise("IbisError", <<"Cannot drop existing table">>), self |-> self]
    ELSE IF name \notin DOMAIN self.dictionary
    THEN [ret |-> Raise("KeyError", <<name>>), self |-> self]
    ELSE [ret |-> [kind |-> "ok", value |-> None],
          self |-> [dictionary |-> Del(self.dictionary, name), schemas |-> self.schemas]]

\* BasePandasBackend.get_schema: the result and the backend afterwards
get_schema(self, table_name) ==
    IF table_name \in DOMAIN self.schemas
    THEN [ret |-> Created(self.schemas[table_name]), self |-> self]
    ELSE IF table_name \notin DOMAIN self.dictionary
    THEN [ret |-> Raise("KeyError", <<table_name>>), self |-> self]
    ELSE LET schema == self.dictionary[table_name].schema
         IN  [ret |-> Created(schema),
              self |-> [dictionary |-> self.dictionary,
                        schemas |-> (table_name :> schema) @@ self.schemas]]

TableNames == {"t", "u"}

\* a schema is the sequence of its <<name, type>> pairs
Schema(pairs) == [py |-> "Schema", pairs |-> pairs]

SchemaValues == {Schema(<<<<"a", DT("Int64")>>>>), Schema(<<<<"a", DT("String")>>>>)}

Backend == [dictionary |-> dictionary, schemas |-> schemas]

CreateTable(name, obj, schema, overwrite) ==
    LET r == create_table(Backend, name, obj, schema, overwrite)
    IN  /\ Idle
        /\ call' = "create_table"
        /\ args' = [self |-> Backend, name |-> name, obj |-> obj, schema |-> schema,
                    overwrite |-> overwrite]
        /\ ret' = r.ret
        /\ dictionary' = r.self.dictionary
        /\ schemas' = r.self.schemas
        /\ UNCHANGED <<registries, compilations, grouped>>

\* drop_table, and drop_view, which hands its arguments to drop_table
DropTable(method, name, force) ==
    LET r == drop_table(Backend, name, force)
    IN  /\ Idle
        /\ call' = method
        /\ args' = [self |-> Backend, name |-> name, force |-> force]
        /\ ret' = r.ret
        /\ dictionary' = r.self.dictionary
        /\ schemas' = r.self.schemas
        /\ UNCHANGED <<registries, compilations, grouped>>

GetSchema(name) ==
    LET r == get_schema(Backend, name)
    IN  /\ Idle
        /\ call' = "get_schema"
        /\ args' = [self |-> Backend, name |-> name]
        /\ ret' = r.ret
        /\ dictionary' = r.self.dictionary
        /\ schemas' = r.self.schemas
        /\ UNCHANGED <<registries, compilations, grouped>>

(***************************************************************************)
(* Grouped tables.  An expression is [expr, name]; a list of expressions   *)
(* is a host list.                                                         *)
(***************************************************************************)
Expr(e) == [py |-> "expr", expr |-> e, name |-> e]

\* expr.name(k)
Named(e, k) == [e EXCEPT !.name = k]

\* util.promote_list
promote_list(x) == IF x.py = "list" THEN x.elems ELSE <<x>>

NoWindow == [py |-> "NoneType"]

\* GroupedTable.__init__; expressions are the keyword keys, in order
GroupedTable(table, by, having, order_by, window, expressions) ==
    [table |-> table,
     by |-> Flatten([i \in DOMAIN by |-> <<by[i]>>])
                \o [i \in DOMAIN expressions |-> Named(expressions[i][2], expressions[i][1])],
     _order_by |-> order_by,
     _having |-> having,
     _window |-> window]

\* ops.RowsWindowFrame(table=, group_by=, order_by=): start and end are not
\* given
RowsWindowFrame(table, group_by, order_by) ==
    [py |-> "frame", how |-> "rows", table |-> table, group_by |-> group_by, order_by |-> order_by,
     start |-> NoWindow, end |-> NoWindow]

\* a frame built with RANGE semantics
RangeWindowFrame(table, group_by, order_by) ==
    [py |-> "frame", how |-> "range", table |-> table, group_by |-> group_by, order_by |-> order_by,
     start |-> NoWindow, end |-> NoWindow]

\* frame.copy(**overrides): the frame rebuilt from its fields and the
\* overrides, which fails for a name that is no field of the frame
window_copy(frame, overrides) ==
    IF \E i \in DOMAIN overrides : overrides[i][1] \notin DOMAIN frame
    THEN Raise("TypeError", <<"unexpected keyword argument">>)
    ELSE Created([f \in DOMAIN frame |->
                    IF \E i \in DOMAIN overrides : overrides[i][1] = f
                    THEN overrides[CHOOSE i \in DOMAIN overrides : overrides[i][1] = f][2]
                    ELSE frame[f]])

\* a default frame without the declared ordering
GetWindowUnordered(self) ==
    IF IsNone(self._window)
    THEN Created(RowsWindowFrame(self.table, self.by, <<>>))
    ELSE window_copy(self._window,
                     <<<<"groupy_by", self._window.group_by \o self.by>>,
                       <<"order_by", self._window.order_by \o self._order_by>>>>)

\* GroupedTable._get_window
_get_window(self) ==
    IF IsNone(self._window)
    THEN Created(RowsWindowFrame(self.table, self.by, self._order_by))
    ELSE window_copy(self._window,
                     <<<<"groupy_by", self._window.group_by \o self.by>>,
                       <<"order_by", self._window.order_by \o self._order_by>>>>)

\* an.windowize_function(expr, frame=frame), kept as the application
windowize_function(e, frame) == [py |-> "expr", expr |-> e.expr, name |-> e.name,
                                 frame |-> frame]

\* GroupedTable._selectables(*exprs, **kwexprs)
_selectables(self, exprs, kwexprs) ==
    LET default_frame == _get_window(self)
        positional == Flatten([i \in DOMAIN exprs |-> promote_list(exprs[i])])
    IN  IF IsRaise(default_frame) THEN default_frame
        ELSE [kind |-> "ok",
              exprs |->
                  [i \in DOMAIN positional |->
                      windowize_function(positional[i], default_frame.value)]
                  \o [i \in DOMAIN kwexprs |->
                         Named(windowize_function(kwexprs[i][2], default_frame.value),
                               kwexprs[i][1])]]

MaxOrderBy == 2

GroupKeys == {<<Expr("foo")>>, <<Expr("foo"), Expr("bar")>>}

KeywordKeys == {<<>>, <<<<"key", Expr("baz")>>>>}

OrderKeys == {Expr("bar"), Expr("baz"), List(<<Expr("baz"), Expr("bar")>>)}

HavingFilters == {Expr("sum > 0"), Expr("max < 9")}

Metrics == {<<Expr("sum")>>, <<Expr("sum"), Expr("mean")>>}

Windows ==
    {RangeWindowFrame("t", <<Expr("bar")>>, <<Expr("foo")>>),
     RowsWindowFrame("t", <<>>, <<Expr("baz")>>)}

PositionalExprs ==
    {<<>>, <<Expr("lag")>>, <<List(<<Expr("lag"), Expr("lead")>>), Expr("sum")>>}

KeywordExprs == {<<>>, <<<<"qux", Expr("lag")>>, <<"qux2", Expr("lead")>>>>}

\* table.group_by(by, **expressions)
GroupBy(by, expressions) ==
    /\ Idle
    /\ grouped' = GroupedTable("t", by, <<>>, <<>>, NoWindow, expressions)
    /\ call' = "group_by"
    /\ args' = [by |-> by, expressions |-> expressions]
    /\ ret' = Ok(<<"GroupedTable">>)
    /\ UNCHANGED <<registries, compilations, pandas>>

\* a having() that keeps only the newest filter
HavingReplaces(self, expr) ==
    GroupedTable(self.table, self.by, promote_list(expr), self._order_by,
                 self._window, <<>>)

\* GroupedTable.having
GroupedTable_having(self, expr) ==
    GroupedTable(self.table, self.by, self._having \o promote_list(expr),
                 self._order_by, self._window, <<>>)

\* GroupedTable.order_by
GroupedTable_order_by(self, expr) ==
    GroupedTable(self.table, self.by, self._having,
                 self._order_by \o promote_list(expr), self._window, <<>>)

\* GroupedTable.over(window)
GroupedTable_over(self, window) ==
    GroupedTable(self.table, self.by, self._having, self._order_by, window, <<>>)

\* an aggregate() that hands the declared ordering on
AggregateOrdered(self, metrics) ==
    [op |-> "Aggregation", table |-> self.table, metrics |-> metrics,
     by |-> self.by \o self._order_by, having |-> self._having]

\* GroupedTable.aggregate: the node table.aggregate is asked for
GroupedTable_aggregate(self, metrics) ==
    [op |-> "Aggregation", table |-> self.table, metrics |-> metrics,
     by |-> self.by, having |-> self._having]

\* GroupedTable.count
GroupedTable_count(self, metric_name) ==
    [op |-> "Aggregation", table |-> self.table,
     metrics |-> <<Named(Expr("count"), metric_name)>>,
     by |-> self.by, having |-> self._having]

\* GroupedTable.having(expr): the caller goes on with the new grouped table
Having(expr) ==
    /\ Idle
    /\ grouped # <<>>
    /\ Len(grouped._having) < MaxOrderBy
    /\ grouped' = GroupedTable_having(grouped, expr)
    /\ call' = "having"
    /\ args' = [self |-> grouped, expr |-> expr]
    /\ ret' = Ok(<<"GroupedTable">>)
    /\ UNCHANGED <<registries, compilations, pandas>>

\* GroupedTable.order_by(expr): the caller goes on with the new grouped table
OrderBy(expr) ==
    /\ Idle
    /\ grouped # <<>>
    /\ Len(grouped._order_by) < MaxOrderBy
    /\ grouped' = GroupedTable_order_by(grouped, expr)
    /\ call' = "order_by"
    /\ args' = [self |-> grouped, expr |-> expr]
    /\ ret' = Ok(<<"GroupedTable">>)
    /\ UNCHANGED <<registries, compilations, pandas>>

\* GroupedTable.over(window)
Over(window) ==
    /\ Idle
    /\ grouped # <<>>
    /\ grouped' = GroupedTable_over(grouped, window)
    /\ call' = "over"
    /\ args' = [self |-> grouped, window |-> window]
    /\ ret' = Ok(<<"GroupedTable">>)
    /\ UNCHANGED <<registries, compilations, pandas>>

\* GroupedTable.aggregate(metrics) and GroupedTable.count(metric_name)
Aggregate(method, metrics) ==
    /\ Idle
    /\ grouped # <<>>
    /\ call' = method
    /\ args' = [self |-> grouped, metrics |-> metrics]
    /\ ret' = [kind |-> "ok",
               node |-> IF method = "aggregate"
                        THEN GroupedTable_aggregate(grouped, metrics)
                        ELSE GroupedTable_count(grouped, "count")]
    /\ UNCHANGED <<registries, compilations, pandas, grouped>>

\* GroupedTable.mutate / GroupedTable.select: the selectables handed to
\* table.mutate / table.select
Selectables(method, exprs, kwexprs) ==
    /\ Idle
    /\ grouped # <<>>
    /\ call' = method
    /\ args' = [self |-> grouped, exprs |-> exprs, kwexprs |-> kwexprs]
    /\ ret' = _selectables(grouped, exprs, kwexprs)
    /\ UNCHANGED <<registries, compilations, pandas, grouped>>

Backends == {"bigquery", "duckdb", "pandas"}

\* a backend on which no compiler is looked for
EveryBackendCompiles(backend) == TRUE

\* hasattr(self, 'compiler'): the SQL backends have one, pandas has none
HasCompiler(backend) == backend \in Dialects

\* translator_class.add_operation(operation, translation_function)
translator_add_operation(reg, operation, translation_function) ==
    (operation :> translation_function) @@ reg

\* the kinds registered at run time, and the rules registered for them
RuntimeKinds == {"Literal", "FindInSet"}

TranslationFunctions == {"fn1", "fn2"}

\* a compilation a decorator call overlaps is not a compilation without
\* add_operation in between (history of the running compilations)
Overlapped(ths) ==
    [t \in Threads |->
        IF ths[t].pc = "idle" THEN ths[t] ELSE [ths[t] EXCEPT !.clean = FALSE]]

\* BaseBackend.add_operation(operation) on a backend
AddOperation(backend, operation) ==
    /\ Idle
    /\ call' = "add_operation"
    /\ args' = [backend |-> backend, operation |-> operation]
    /\ IF ~HasCompiler(backend)
       THEN /\ ret' = Raise("RuntimeError",
                           <<"Only SQL-based backends support add_operation">>)
            /\ UNCHANGED decorator
       ELSE /\ ret' = Ok(<<"decorator">>)
            /\ decorator' = [backend |-> backend, operation |-> operation]
    /\ UNCHANGED <<registries, threads, pandas, grouped>>

\* the decorator add_operation returned, applied to translation_function
Decorator(translation_function) ==
    /\ Idle
    /\ decorator # <<>>
    /\ call' = "decorator"
    /\ args' = [backend |-> decorator.backend, operation |-> decorator.operation,
                fn |-> translation_function]
    /\ ret' = Ok(<<"None">>)
    /\ IF decorator.backend = "bigquery"
       THEN /\ OPERATION_REGISTRY' =
                   translator_add_operation(OPERATION_REGISTRY, decorator.operation,
                                            translation_function)
            /\ UNCHANGED duckdb_registry
       ELSE /\ duckdb_registry' =
                   translator_add_operation(duckdb_registry, decorator.operation,
                                            translation_function)
            /\ UNCHANGED OPERATION_REGISTRY
    /\ threads' = Overlapped(threads)
    /\ UNCHANGED <<operation_registry, postgres_registry, decorator, pandas, grouped>>

\* the text of a chain whose rules, outermost first, are rules
RECURSIVE Nested(_)
Nested(rules) ==
    IF rules = <<>> THEN <<>>
    ELSE <<Head(rules), "(">> \o Nested(Tail(rules)) \o <<")">>

\* rules kept in one place for all the compilations
SharedRules(ths, t) ==
    IF ths["t1"].pc = "idle" THEN ths[t].rules ELSE ths["t1"].rules

\* the rules a compilation has looked up so far: local to its call
RulesOf(ths, t) == ths[t].rules

\* a thread calls compile(expr) on a backend of the dialect
StartCompile(t, dialect, expr) ==
    /\ threads[t].pc = "idle"
    /\ threads' = [threads EXCEPT ![t] =
                      [pc |-> "running", dialect |-> dialect, expr |-> expr,
                       rules |-> <<>>, clean |-> TRUE, result |-> Ok(<<>>)]]
    /\ UNCHANGED <<registries, call, args, ret, decorator, pandas, grouped>>

\* the compilation of a thread goes one node down: it looks up the rule of
\* the node's kind in the registry as it is now; past the innermost node it
\* puts the text together
StepCompile(t) ==
    LET th == threads[t]
        reg == RegistryOf(th.dialect)
        rules == RulesOf(threads, t)
        kind == th.expr[Len(rules) + 1]
    IN  /\ th.pc = "running"
        /\ threads' = [threads EXCEPT ![t] =
              IF Len(rules) >= Len(th.expr)
              THEN [th EXCEPT !.pc = "done", !.result = Ok(Nested(rules))]
              ELSE IF kind \notin DOMAIN reg
              THEN [th EXCEPT !.pc = "done",
                              !.result = Raise("OperationNotDefinedError",
                                               <<th.dialect, kind>>)]
              ELSE [th EXCEPT !.rules = Append(rules, reg[kind])]]
        /\ UNCHANGED <<registries, call, args, ret, decorator, pandas, grouped>>

\* the thread takes the result of its compilation
FinishCompile(t) ==
    /\ threads[t].pc = "done"
    /\ threads' = [threads EXCEPT ![t] = NoCompilation]
    /\ UNCHANGED <<registries, call, args, ret, decorator, pandas, grouped>>

\* the state once both dialect modules are imported, over the base registry
\* sql and the postgres registry pg
Imported(sql, pg) ==
    /\ operation_registry = sql
    /\ postgres_registry = pg
    /\ OPERATION_REGISTRY = BuildBigQuery(sql)
    /\ duckdb_registry = BuildDuckDB(pg)
    /\ call = "idle"
    /\ args = <<>>
    /\ ret = Ok(<<>>)
    /\ decorator = <<>>
    /\ threads = [t \in Threads |-> NoCompilation]
    /\ dictionary = <<>>
    /\ schemas = <<>>
    /\ grouped = <<>>

InitRegistry == \E sql \in SqlBaseRegistries, pg \in PgBaseRegistries : Imported(sql, pg)

NextRegistry ==
    \/ Idle /\ \E d \in Dialects, e \in Exprs : Compile(d, e)
    \/ Return

SpecRegistry == InitRegistry /\ [][NextRegistry]_vars

Init ==
    Imported([k \in SqlBaseCandidates |-> "base_sql_rule"],
             [k \in PgBaseCandidates |-> "postgres_rule"])

Next ==
    \/ Idle /\ \E d \in LiteralDialects, op \in LiteralOps : FormatLiteral(d, op)
    \/ Idle /\ \E p, s \in ParamValues : NewDecimal(p, s)
    \/ Idle /\ \E self \in ValidDecimals : Largest(self)
    \/ Idle /\ \E d \in Dialects, n \in ArrayLengths, i \in ArrayIndexes : ArrayIndex(d, n, i)
    \/ Idle /\ \E how \in HashHows : Hash(how)
    \/ Idle /\ \E start, end \in FindBounds : StringFind(start, end)
    \/ Idle /\ \E nth \in NthArgs : NthValue(nth)
    \/ Idle /\ \E d \in Dialects, unit \in TimestampUnit : TimestampFromUNIX(d, unit)
    \/ Idle /\ \E how \in ArbitraryHows : Arbitrary(how)
    \/ Idle /\ \E kind \in UnitOps : \E unit \in UnitsOf(kind) : UnitOp(kind, unit)
    \/ Return

Spec == Init /\ [][Next]_vars

\* rules are registered at run time between compilations
NextRuntime ==
    \/ Idle /\ \E b \in Backends, k \in RuntimeKinds : AddOperation(b, k)
    \/ Idle /\ \E fn \in TranslationFunctions : Decorator(fn)
    \/ Idle /\ \E d \in Dialects, e \in Exprs : Compile(d, e)
    \/ Return

SpecRuntime == Init /\ [][NextRuntime]_vars

\* BigQuery rules are applied and their text evaluated
NextBigQuery ==
    \/ Idle /\ \E kind \in {"ZeroIfNull", "NullIfZero", "NullIf"}, dtype \in NumericTypes :
                 \E x, y \in SqlValues(dtype) : NullHandling(kind, dtype, x, y)
    \/ Idle /\ \E from_, to \in CastTypes : Cast(from_, to)
    \/ Idle /\ \E x \in SqlValues(DT("Int64")) : CastRoundTrip(x)
    \/ Idle /\ \E n \in ArrayLengths, start \in SliceStops \ {NoParam}, stop \in SliceStops :
                 \E elements \in array_slice_results(n, start, stop) :
                    ArraySlice(n, start, stop, elements)
    \/ Return

SpecBigQuery == Init /\ [][NextBigQuery]_vars

\* data types are inferred from host values and asked for their kind
NextTypes ==
    \/ Idle /\ \E value \in HostValues : Infer(value)
    \/ Idle /\ \E self \in ConcreteTypes : KindPredicates(self)
    \/ Idle /\ \E self \in BoundedTypes : BoundsOf(self)
    \/ Return

SpecTypes == Init /\ [][NextTypes]_vars

\* tables are created in and dropped from the pandas backend
NextPandas ==
    \/ Idle /\ \E name \in TableNames,
                   obj \in {None} \cup {DataFrame(s) : s \in SchemaValues},
                   schema \in {None} \cup SchemaValues, overwrite \in BOOLEAN :
                    CreateTable(name, obj, schema, overwrite)
    \/ Idle /\ \E method \in {"drop_table", "drop_view"}, name \in TableNames,
                   force \in BOOLEAN : DropTable(method, name, force)
    \/ Idle /\ \E name \in TableNames : GetSchema(name)
    \/ Return

SpecPandas == Init /\ [][NextPandas]_vars

\* a grouped table is built and projected
NextGroupBy ==
    \/ Idle /\ \E by \in GroupKeys, kw \in KeywordKeys : GroupBy(by, kw)
    \/ Idle /\ \E e \in OrderKeys : OrderBy(e)
    \/ Idle /\ \E w \in Windows : Over(w)
    \/ Idle /\ \E e \in HavingFilters : Having(e)
    \/ Idle /\ \E m \in {"aggregate", "count"}, metrics \in Metrics : Aggregate(m, metrics)
    \/ Idle /\ \E m \in {"mutate", "select"}, exprs \in PositionalExprs,
                   kw \in KeywordExprs : Selectables(m, exprs, kw)
    \/ Return

SpecGroupBy == Init /\ [][NextGroupBy]_vars

\* chains of select, filter and mutate are executed
NextFusion ==
    \/ Idle /\ \E table \in Tables, plan \in Plans : ExecuteChain(table, plan)
    \/ Return

SpecFusion == Init /\ [][NextFusion]_vars

ThreadExprs == SeqsUpTo({"Literal", "FindInSet"}, MaxExprDepth) \ {<<>>}

\* threads compile without synchronization while a rule is registered
NextConcurrent ==
    \/ \E t \in Threads, d \in Dialects, e \in ThreadExprs : StartCompile(t, d, e)
    \/ \E t \in Threads : StepCompile(t)
    \/ \E t \in Threads : FinishCompile(t)
    \/ Idle /\ AddOperation("bigquery", "Literal")
    \/ Idle /\ Decorator("fn1")
    \/ Return

SpecConcurrent == Init /\ [][NextConcurrent]_vars

(***************************************************************************)
(* Claims.                                                                 *)
(***************************************************************************)

\* C1: no denylisted kind is a key of a dialect's final registry, whatever
\* the base registry or the overlay defined, and compiling an expression
\* that contains a denylisted kind raises and yields no text.
C1_DenylistEnforced ==
    /\ bigquery_invalid_operations \cap DOMAIN OPERATION_REGISTRY = {}
    /\ duckdb_invalid_operations \cap DOMAIN duckdb_registry = {}
    /\ (call = "compile" /\ Range(args.expr) \cap InvalidOf(args.dialect) # {})
           => IsRaise(ret)

\* a denylisted kind that the base registry defines, nested in a literal's
\* parent, is compiled for BigQuery and raises
C1_Witness ==
    /\ call = "compile"
    /\ args.dialect = "bigquery"
    /\ Len(args.expr) = 2
    /\ args.expr[1] = "Literal"
    /\ args.expr[2] = "FindInSet"
    /\ "FindInSet" \in DOMAIN operation_registry
    /\ IsRaise(ret)

\* the names a non-finite value can take in a text
NonFiniteTokens == {"nan", "NaN", "inf", "-inf", "Inf", "-Inf", "Infinity", "-Infinity"}

QuotesBefore(text, i) == Cardinality({j \in 1..(i - 1) : text[j] = Quote})

\* the pieces of a text that stand outside quotes
BareTokens(text) ==
    {text[i] : i \in {j \in DOMAIN text : text[j] # Quote /\ QuotesBefore(text, j) % 2 = 0}}

\* CAST('<name>' AS <type>)
CastFromQuotedString(text) ==
    /\ Len(text) = 8
    /\ text[1] = "CAST" /\ text[2] = "("
    /\ text[3] = Quote /\ text[4] \in NonFiniteTokens /\ text[5] = Quote
    /\ text[6] = "AS" /\ text[8] = ")"

\* the numeral of a finite number
Numeral(v) == IF v.py = "float" THEN ToString(v.n) \o ".0" ELSE ToString(v.n)

NumericLiteralCall ==
    /\ call = "literal"
    /\ IsNumber(args.op.value)
    /\ is_numeric(args.op.dtype)

\* C2: in the generic, BigQuery and DuckDB dialects every non-finite numeric
\* literal is a cast from a quoted string with no bare NaN/Infinity token,
\* and every finite numeric literal is the plain numeral without a cast.
C2_NumericLiteralEncoding ==
    NumericLiteralCall =>
        /\ IsOk(ret)
        /\ IF isfinite(args.op.value)
           THEN ret.text = <<Numeral(args.op.value)>>
           ELSE /\ CastFromQuotedString(ret.text)
                /\ BareTokens(ret.text) \cap NonFiniteTokens = {}

\* C3: a literal whose value is None renders as NULL in the three dialects,
\* whatever its declared type, also a type without a formatter.
C3_NoneIsNull ==
    (call = "literal" /\ IsNone(args.op.value)) => ret = Ok(<<"NULL">>)

\* None of type UUID, which the generic dialect has no formatter for
C3_Witness ==
    /\ call = "literal"
    /\ args.dialect = "generic"
    /\ args.op = Literal(None, DT("UUID"))
    /\ ret = Ok(<<"NULL">>)

Count(s, x) == Cardinality({i \in DOMAIN s : s[i] = x})

GenericStringCall ==
    /\ call = "literal"
    /\ args.dialect = "generic"
    /\ is_string(args.op.dtype)
    /\ args.op.value.py = "str"

\* C4: the generic formatter's text of a string starts and ends with a
\* single quote, and every single quote of the value is in the body,
\* preceded by a backslash.
C4_StringQuotesEscaped ==
    GenericStringCall =>
        /\ IsOk(ret)
        /\ Len(ret.text) >= 2
        /\ ret.text[1] = Quote
        /\ ret.text[Len(ret.text)] = Quote
        /\ LET body == SubSeq(ret.text, 2, Len(ret.text) - 1)
           IN  /\ Count(body, Quote) = Count(args.op.value.s, Quote)
               /\ \A i \in DOMAIN body :
                      body[i] = Quote => (i > 1 /\ body[i - 1] = Backslash)

\* a string that holds a single quote has been formatted
C4_Witness ==
    /\ GenericStringCall
    /\ Quote \in Range(args.op.value.s)
    /\ IsOk(ret)

BothIntegers(p, s) == IsParam(p) /\ IsParam(s) /\ IsIntegral(p) /\ IsIntegral(s)

\* C5: Decimal with scale > precision fails with a type error, Decimal with
\* precision == 0 fails, and a constructed Decimal with both parameters set
\* has precision >= scale >= 0 and precision >= 1.
C5_DecimalTypeError ==
    call = "Decimal" =>
        LET p == args.precision
            s == args.scale
        IN  /\ (BothIntegers(p, s) /\ Val(s) > Val(p)) =>
                   (IsRaise(ret) /\ ret.exc \in {"TypeError", "IbisTypeError"})
            /\ (p = Param(0)) => IsRaise(ret)
            /\ (IsOk(ret) /\ IsParam(p) /\ IsParam(s)) =>
                   (Val(p) >= Val(s) /\ Val(s) >= 0 /\ Val(p) >= 1)

\* C6 as stated: largest bumps the precision to at least 38 and preserves
\* the scale, its result passes the validation, and largest is idempotent.
C6_Original ==
    call = "largest" =>
        /\ IsOk(ret)
        /\ IsParam(args.self.precision) =>
               /\ Val(ret.value.precision) >= 38
               /\ Val(ret.value.precision) >= Val(args.self.precision)
        /\ ret.value.scale = args.self.scale
        /\ largest(ret.value) = ret

\* C6 (amended): largest yields precision max(p, 38) and scale max(s, 2): the
\* scale is preserved only when it is at least 2 and is raised to 2 otherwise
\* (Decimal(10, 2).largest = Decimal(38, 2)); an unset parameter stays unset;
\* the result passes Decimal's validation, and largest is idempotent.
C6_LargestDecimal ==
    call = "largest" =>
        LET p == args.self.precision
            s == args.self.scale
        IN  /\ IsOk(ret)
            /\ ret.value.precision =
                   (IF ~IsParam(p) THEN NoParam
                    ELSE IF Val(p) >= 38 THEN p ELSE Param(38))
            /\ ret.value.scale =
                   (IF ~IsParam(s) THEN NoParam
                    ELSE IF Val(s) >= 2 THEN s ELSE Param(2))
            /\ (p = Param(10) /\ s = Param(2)) =>
                   ret.value = DecimalType(Param(38), Param(2))
            /\ largest(ret.value) = ret

\* Decimal(10, 2).largest has been taken and is Decimal(38, 2)
C6_Witness ==
    /\ call = "largest"
    /\ args.self = DecimalType(Param(10), Param(2))
    /\ ret = Created(DecimalType(Param(38), Param(2)))

\* C7: in BigQuery and in DuckDB the ArrayIndex rule addresses offset n + i
\* for an index -n <= i < 0 on an array of length n, and offset i for i >= 0.
C7_NegativeIndexNormalized ==
    call = "ArrayIndex" =>
        /\ (args.index >= 0) => ret.offset = args.index
        /\ (args.index < 0 /\ args.index >= -args.n) => ret.offset = args.n + args.index

RuleCalls == {"Hash", "StringFind", "NthValue", "TimestampFromUNIX", "Arbitrary", "UnitOp"}

\* C8: a translation rule either returns text or raises
\* UnsupportedOperationError, and no other kind of exception.
C8_OnlyUnsupportedOperationError ==
    call \in RuleCalls =>
        (IsOk(ret) \/ (IsRaise(ret) /\ ret.exc = "UnsupportedOperationError"))

DateGranularity == {"YEAR", "QUARTER", "MONTH", "WEEK", "DAY"}

TimeGranularity == {"HOUR", "MINUTE", "SECOND", "MILLISECOND", "MICROSECOND"}

\* the units BigQuery is said to accept for an operation, by name
AllowList(kind) ==
    IF kind \in {"DateAdd", "DateSub", "DateTruncate"} THEN DateGranularity
    ELSE IF kind \in {"TimestampAdd", "TimestampSub", "TimeTruncate"} THEN TimeGranularity
    ELSE DateGranularity \cup TimeGranularity

\* C9: a BigQuery truncation or date/timestamp add/sub rule returns text for
\* a unit of the operation's allow-list, and for any other unit raises
\* UnsupportedOperationError with a message that names the unit and BigQuery.
C9_UnitAllowList ==
    call = "UnitOp" =>
        IF args.unit[2] \in AllowList(args.op)
        THEN IsOk(ret)
        ELSE /\ IsRaise(ret)
             /\ ret.exc = "UnsupportedOperationError"
             /\ "BigQuery" \in Range(ret.msg)
             /\ UnitName(args.unit) \in Range(ret.msg)

\* TimestampAdd with a nanosecond interval has been refused
C9_Witness ==
    /\ call = "UnitOp"
    /\ args.op = "TimestampAdd"
    /\ args.unit = <<"IntervalUnit", "NANOSECOND">>
    /\ IsRaise(ret)

\* the struct literal a dialect would give with the fields in the order of
\* the struct type, each name with the formatted value of that field
StructInTypeOrder(dialect, op) ==
    LET dtype == op.dtype
        vals == [i \in DOMAIN dtype.fields |->
                    TranslateLiteral(dialect,
                        Literal(DictGet(op.value, names(dtype)[i]), types(dtype)[i])).text]
    IN  IF dialect = "bigquery"
        THEN <<"STRUCT", "(">>
                 \o Join(<<",">>, [i \in DOMAIN vals |-> vals[i] \o <<"AS", names(dtype)[i]>>])
                 \o <<")">>
        ELSE <<"struct_pack", "(">>
                 \o Join(<<",">>, [i \in DOMAIN vals |-> <<names(dtype)[i], ":=">> \o vals[i]])
                 \o <<")">>

\* C10: in BigQuery and in DuckDB the fields of a struct literal appear in
\* the order the struct type declares, whatever the iteration order of the
\* mapping that holds the value.
C10_StructFieldOrder ==
    (/\ call = "literal"
     /\ args.dialect \in {"bigquery", "duckdb"}
     /\ is_struct(args.op.dtype)
     /\ ~IsNone(args.op.value)) =>
        (IsOk(ret) /\ ret.text = StructInTypeOrder(args.dialect, args.op))

\* an array literal whose elements are each formatted as a scalar literal of
\* the array's value type
ArrayOfScalarLiterals(dialect, op) ==
    <<"[">>
        \o Join(<<",">>,
                [i \in DOMAIN op.value.elems |->
                    TranslateLiteral(dialect,
                        Literal(op.value.elems[i], op.dtype.value_type)).text])
        \o <<"]">>

\* C11: in BigQuery every element of a formatted array literal is rendered
\* as the same value is rendered as a scalar literal of the array's value
\* type (None as NULL, a non-finite float as a cast from a string, a string
\* quoted and escaped).
C11_ArrayElementsAsScalars ==
    (/\ call = "literal"
     /\ args.dialect = "bigquery"
     /\ is_array(args.op.dtype)
     /\ ~IsNone(args.op.value)) =>
        (IsOk(ret) /\ ret.text = ArrayOfScalarLiterals("bigquery", args.op))

NoRule == "no rule"

\* the rule layering gives a kind: the overlay's, else the base's, and none
\* for a denylisted kind
LayeredRule(overlay, base, invalid, k) ==
    IF k \in invalid THEN NoRule
    ELSE IF k \in DOMAIN overlay THEN overlay[k]
    ELSE IF k \in DOMAIN base THEN base[k]
    ELSE NoRule

RuleIn(reg, k) == IF k \in DOMAIN reg THEN reg[k] ELSE NoRule

KnownKinds ==
    DOMAIN BigQueryOverlay \cup DOMAIN DuckDBOverlay \cup SqlBaseCandidates
        \cup PgBaseCandidates \cup ExprKinds

\* what layering gives a dialect for a kind; DuckDB's base is the postgres
\* registry without the geospatial functions
Resolved(dialect, k) ==
    IF dialect = "bigquery"
    THEN LayeredRule(BigQueryOverlay, operation_registry, bigquery_invalid_operations, k)
    ELSE LayeredRule(DuckDBOverlay, DuckDBBase(postgres_registry),
                     duckdb_invalid_operations, k)

\* C12: a dialect registry is base, then overlay, then denylist removal: a
\* kind with an overlay rule maps to it even when the base has one, a kind
\* with only a base rule maps to the base rule, a kind in neither has no
\* entry, and translating a kind without entry raises
\* OperationNotDefinedError while a translated kind uses its resolved rule.
C12_LayeredResolution ==
    /\ \A d \in Dialects, k \in KnownKinds : RuleIn(RegistryOf(d), k) = Resolved(d, k)
    /\ call = "compile" =>
           IF \E i \in DOMAIN args.expr : Resolved(args.dialect, args.expr[i]) = NoRule
           THEN IsRaise(ret) /\ ret.exc \in {"NotImplementedError", "OperationNotDefinedError"}
           ELSE IsOk(ret) /\ ret.text[1] = Resolved(args.dialect, args.expr[1])

\* DuckDB compiles Sum over a literal: Literal has a base and an overlay rule
\* and takes the overlay's, Sum has only a base rule and takes it
C12_Witness ==
    /\ call = "compile"
    /\ args.dialect = "duckdb"
    /\ args.expr = <<"Sum", "Literal">>
    /\ {"Sum", "Literal"} \subseteq DOMAIN postgres_registry
    /\ IsOk(ret)
    /\ ret.text = <<"postgres_rule", "(", "_literal", "(", ")", ")">>

\* what the decorator step may change: the rule of args'.operation in the
\* registry of args'.backend becomes args'.fn and nothing else changes
DecoratorFrame ==
    LET b == args'.backend
        k == args'.operation
        old == IF b = "bigquery" THEN OPERATION_REGISTRY ELSE duckdb_registry
        new == IF b = "bigquery" THEN OPERATION_REGISTRY' ELSE duckdb_registry'
    IN  /\ DOMAIN new = DOMAIN old \cup {k}
        /\ new[k] = args'.fn
        /\ \A j \in DOMAIN new \ {k} : new[j] = old[j]
        /\ b = "bigquery" => duckdb_registry' = duckdb_registry
        /\ b = "duckdb" => OPERATION_REGISTRY' = OPERATION_REGISTRY
        /\ operation_registry' = operation_registry
        /\ postgres_registry' = postgres_registry

\* what add_operation itself does: no registry changes; a backend without a
\* compiler gets RuntimeError and no decorator
AddOperationFrame ==
    /\ UNCHANGED registries
    /\ IF args'.backend \in Dialects
       THEN IsOk(ret') /\ decorator'.backend = args'.backend
                      /\ decorator'.operation = args'.operation
       ELSE IsRaise(ret') /\ ret'.exc = "RuntimeError" /\ decorator' = decorator

\* C13: on a backend with a compiler, applying the decorator add_operation
\* returned to fn makes fn the rule of the operation in that backend's
\* registry, replacing an earlier rule, and leaves every other rule and
\* registry unchanged; every later compilation of that dialect uses it; on a
\* backend without a compiler add_operation raises RuntimeError and changes
\* no registry.
C13_AddOperationRegisters ==
    /\ [][/\ (call = "idle" /\ call' = "decorator") => DecoratorFrame
          /\ (call = "idle" /\ call' = "add_operation") => AddOperationFrame
          /\ (call = "idle" /\ call' = "compile") => UNCHANGED registries]_vars
    /\ [](call = "compile" =>
             IF \A i \in DOMAIN args.expr : args.expr[i] \in DOMAIN RegistryOf(args.dialect)
             THEN IsOk(ret) /\ ret.text[1] = RegistryOf(args.dialect)[args.expr[1]]
             ELSE IsRaise(ret))

\* BigQuery compiles a literal with the rule fn1 that replaced _literal
C13_Witness ==
    /\ call = "compile"
    /\ args.dialect = "bigquery"
    /\ args.expr = <<"Literal">>
    /\ ret = Ok(<<"fn1", "(", ")">>)

Finished(t) == threads[t].pc = "done"

\* C14: the result of a compilation that no add_operation overlaps is the
\* translation of its expression under the dialect's registry, however the
\* steps of the other compilations interleave with its own; so two such
\* compilations of the same expression and dialect yield identical results,
\* and none depends on what another compilation did.
C14_CompileDeterministic ==
    /\ \A t \in Threads :
           (Finished(t) /\ threads[t].clean) =>
               threads[t].result =
                   Translate(threads[t].dialect, RegistryOf(threads[t].dialect),
                             threads[t].expr)
    /\ \A t, u \in Threads :
           (/\ Finished(t) /\ Finished(u)
            /\ threads[t].clean /\ threads[u].clean
            /\ threads[t].dialect = threads[u].dialect
            /\ threads[t].expr = threads[u].expr) =>
               threads[t].result = threads[u].result

\* two compilations of the same two-node expression have finished after a
\* rule was registered and before any other was, with the same text
C14_Witness ==
    /\ Finished("t1") /\ Finished("t2")
    /\ threads["t1"].clean /\ threads["t2"].clean
    /\ threads["t1"].dialect = "bigquery" /\ threads["t2"].dialect = "bigquery"
    /\ threads["t1"].expr = <<"Literal", "Literal">>
    /\ threads["t2"].expr = <<"Literal", "Literal">>
    /\ threads["t1"].result = Ok(<<"fn1", "(", "fn1", "(", ")", ")">>)

\* C15: the fused plan of a chain whose predicates read only columns that
\* existed before the selects they follow returns the rows of the chain
\* evaluated step by step; a filter between a mutate that defines a column
\* and a later mutate that redefines it reads the earlier definition.
C15_FusionSafety ==
    call = "execute" =>
        /\ IsOk(ret)
        /\ ret.rows = args.unfused
        /\ \A c \in Columns :
               args.plan = <<MutateStep(c), FilterStep(c), MutateStep(c)>> =>
                   ret.rows = SelectSeq(args.table.rows, LAMBDA r : 1 - r[c] = 1)

\* select("int_col").filter(t.float_col == 1) run on two rows of which one
\* passes: the filter was pushed below the select
C15_Witness ==
    /\ call = "execute"
    /\ args.plan = <<SelectStep({"int_col"}), FilterStep("float_col")>>
    /\ args.fused = <<FilterStep("float_col"), SelectStep({"int_col"})>>
    /\ Len(args.table.rows) = 2
    /\ Len(ret.rows) = 1

\* C16: for a grouped table without explicit window every expression given
\* to mutate/select, positional (lists flattened) or keyword, is windowized
\* with one default frame: ROWS semantics, group_by the grouping keys,
\* order_by the declared ordering (empty if none), no row bounds; the
\* positional expressions come first and the keyword expressions keep
\* their keyword as name.
C16_DefaultWindowInjected ==
    (call \in {"mutate", "select"} /\ IsNone(args.self._window)) =>
        LET self == args.self
            positional == Flatten([i \in DOMAIN args.exprs |->
                                      IF args.exprs[i].py = "list" THEN args.exprs[i].elems
                                      ELSE <<args.exprs[i]>>])
            n == Len(positional)
        IN  /\ IsOk(ret)
            /\ Len(ret.exprs) = n + Len(args.kwexprs)
            /\ \A i \in DOMAIN ret.exprs :
                   /\ ret.exprs[i].frame.how = "rows"
                   /\ ret.exprs[i].frame.table = self.table
                   /\ ret.exprs[i].frame.group_by = self.by
                   /\ ret.exprs[i].frame.order_by = self._order_by
                   /\ IsNone(ret.exprs[i].frame.start)
                   /\ IsNone(ret.exprs[i].frame.end)
            /\ \A i \in 1..n :
                   /\ ret.exprs[i].expr = positional[i].expr
                   /\ ret.exprs[i].name = positional[i].name
            /\ \A i \in DOMAIN args.kwexprs :
                   /\ ret.exprs[n + i].expr = args.kwexprs[i][2].expr
                   /\ ret.exprs[n + i].name = args.kwexprs[i][1]

\* t.group_by(foo, bar).order_by(bar).mutate([lag, lead], sum, qux=, qux2=)
C16_Witness ==
    /\ call = "mutate"
    /\ IsNone(args.self._window)
    /\ Len(args.self.by) = 2
    /\ args.self._order_by = <<Expr("bar")>>
    /\ Len(args.exprs) = 2
    /\ IsOk(ret)
    /\ Len(ret.exprs) = 5
    /\ ret.exprs[5].name = "qux2"

\* C17: the dtype dispatcher applied to a host value or type hint either
\* returns a DataType instance or fails with TypeInferenceError.
C17_InferDataTypeOrInferenceError ==
    call = "dtype" =>
        \/ IsOk(ret) /\ "cls" \in DOMAIN ret.value
        \/ IsRaise(ret) /\ ret.exc = "TypeInferenceError"

\* C18: the kind predicates of every concrete data type agree with the
\* taxonomy: signed or unsigned implies integer, integer or floating
\* implies numeric, date/time/timestamp imply temporal,
\* string/binary/array/set/map/json imply variadic; signed and unsigned,
\* integer and floating exclude each other; Decimal, Interval, Struct,
\* GeoSpatial, UUID, INET, MACADDR, Null, Unknown and Boolean are none of
\* integer, floating, temporal, variadic.
C18_PredicatesAgreeWithTaxonomy ==
    call = "is_" =>
        /\ (ret.is_signed_integer \/ ret.is_unsigned_integer) => ret.is_integer
        /\ (ret.is_integer \/ ret.is_floating) => ret.is_numeric
        /\ (ret.is_date \/ ret.is_time \/ ret.is_timestamp) => ret.is_temporal
        /\ (ret.is_string \/ ret.is_binary \/ ret.is_array \/ ret.is_set
                \/ ret.is_map \/ ret.is_json) => ret.is_variadic
        /\ ~(ret.is_signed_integer /\ ret.is_unsigned_integer)
        /\ ~(ret.is_integer /\ ret.is_floating)
        /\ args.self.cls \in {"Decimal", "Interval", "Struct", "GeoSpatial", "Point",
                              "Polygon", "UUID", "INET", "MACADDR", "Null", "Unknown",
                              "Boolean"} =>
               ~(ret.is_integer \/ ret.is_floating \/ ret.is_temporal \/ ret.is_variadic)

\* C19: drop_table(name) with the default force=False removes an existing
\* table (it is no longer listed and table(name) fails) and raises when
\* the table does not exist; drop_view behaves the same.
C19_DropTableDrops ==
    (call \in {"drop_table", "drop_view"} /\ ~args.force) =>
        IF args.name \in list_tables(args.self)
        THEN /\ IsOk(ret)
             /\ args.name \notin list_tables(Backend)
             /\ IsRaise(Backend_table(Backend, args.name, None))
        ELSE IsRaise(ret)

\* the table stored and the schema recorded under name
Stored(self, name) ==
    <<IF name \in DOMAIN self.dictionary THEN self.dictionary[name] ELSE None,
      IF name \in DOMAIN self.schemas THEN self.schemas[name] ELSE None>>

\* C20: in the pandas backend create_table with overwrite=False on an
\* existing name raises IbisError and leaves the stored table and the
\* recorded schema of the name unchanged; a call with neither obj nor
\* schema raises IbisError and changes nothing; a successful call leaves
\* the name in list_tables().
C20_CreateTableNeverClobbers ==
    call = "create_table" =>
        /\ (args.name \in list_tables(args.self) /\ ~args.overwrite) =>
               /\ IsRaise(ret) /\ ret.exc = "IbisError"
               /\ Stored(Backend, args.name) = Stored(args.self, args.name)
        /\ (IsNone(args.obj) /\ IsNone(args.schema)) =>
               /\ IsRaise(ret) /\ ret.exc = "IbisError"
               /\ Backend = args.self
        /\ IsOk(ret) => args.name \in list_tables(Backend)

\* create_table("t", df, schema=s) refused for an existing t that has a
\* recorded schema and another table beside it
C20_Witness ==
    /\ call = "create_table"
    /\ ~args.overwrite
    /\ ~IsNone(args.obj)
    /\ ~IsNone(args.schema)
    /\ args.name = "t"
    /\ DOMAIN dictionary = TableNames
    /\ "t" \in DOMAIN schemas
    /\ schemas["t"] # args.schema
    /\ dictionary["t"] # args.obj
    /\ IsRaise(ret)

\* C21: zeroifnull(x) is zero of x's type when x is NULL and x otherwise;
\* nullif(x, y) / nullifzero(x) is NULL when x equals y / zero and x
\* otherwise; the BigQuery rules are COALESCE(x, CAST(0 AS T)) and
\* NULLIF(x, CAST(0 AS T)) with T the operation's output type.
C21_NullHandling ==
    LET T == ibis_type_to_bigquery_type(args.dtype)
        x == args.x
    IN  /\ call = "ZeroIfNull" =>
               /\ ret.text = <<"COALESCE", "(", "x", ",", "CAST", "(", "0", "AS", T, ")", ")">>
               /\ ret.value = IF x = SqlNull THEN SqlNumber(T, 0) ELSE x
        /\ call = "NullIfZero" =>
               /\ ret.text = <<"NULLIF", "(", "x", ",", "CAST", "(", "0", "AS", T, ")", ")">>
               /\ ret.value = IF x # SqlNull /\ x.v = 0 THEN SqlNull ELSE x
        /\ call = "NullIf" =>
               ret.value = IF x # SqlNull /\ args.y # SqlNull /\ x.v = args.y.v
                           THEN SqlNull ELSE x

\* NULL.zeroifnull() on a float64 column is 0 of FLOAT64
C21_Witness ==
    /\ call = "ZeroIfNull"
    /\ args.x = SqlNull
    /\ args.dtype = DT("Float64")
    /\ ret.value = SqlNumber(ibis_type_to_bigquery_type(DT("Float64")), 0)

\* C23: in BigQuery a timestamp cast to an integer is seconds since the
\* Unix epoch and an integer cast to a timestamp is read as seconds since
\* the epoch, so integer -> timestamp -> integer returns x; every other
\* pair of kinds falls back to CAST(x AS T).
C23_CastRoundTrip ==
    /\ (call = "CastRoundTrip" /\ args.x # SqlNull) =>
           /\ ret.timestamp = SqlTimestamp(args.x.v * 1000000)
           /\ ret.value.v = args.x.v
    /\ call = "Cast" =>
           IF IsInstance(args.from_, "Timestamp") /\ IsInstance(args.to, "Integer")
           THEN ret.text[1] # "CAST"
           ELSE IF IsInstance(args.from_, "Integer") /\ IsInstance(args.to, "Timestamp")
           THEN ret.text = <<"TIMESTAMP_SECONDS", "(", "x", ")">>
           ELSE ret.text = <<"CAST", "(", "x", "AS", ibis_type_to_bigquery_type(args.to), ")">>

\* C22: aggregate() and count() of a grouped table use only the table, the
\* grouping keys and the having filters: the aggregation node holds
\* nothing of the declared ordering or the attached window.
C22_OrderByIgnoredInAggregation ==
    call \in {"aggregate", "count"} =>
        /\ DOMAIN ret.node = {"op", "table", "metrics", "by", "having"}
        /\ ret.node.table = args.self.table
        /\ ret.node.by = args.self.by
        /\ ret.node.having = args.self._having
        /\ ret.node = (IF call = "aggregate"
                       THEN GroupedTable_aggregate(
                                GroupedTable(args.self.table, args.self.by,
                                             args.self._having, <<>>, NoWindow, <<>>),
                                args.metrics)
                       ELSE GroupedTable_count(
                                GroupedTable(args.self.table, args.self.by,
                                             args.self._having, <<>>, NoWindow, <<>>),
                                "count"))

\* an aggregation of a grouped table with a having filter, a declared
\* ordering and a window
C22_Witness ==
    /\ call = "aggregate"
    /\ args.self._order_by # <<>>
    /\ ~IsNone(args.self._window)
    /\ args.self._having # <<>>
    /\ ret.node.by = args.self.by

\* C26: after over(w) the frame of a following mutate/select is w with
\* group_by = w.group_by followed by the grouping keys and order_by =
\* w.order_by followed by the declared ordering, and building it raises
\* no error.
C26_ExplicitWindowExtended ==
    (call \in {"mutate", "select"} /\ ~IsNone(args.self._window)) =>
        LET w == args.self._window
        IN  /\ IsOk(ret)
            /\ \A i \in DOMAIN ret.exprs :
                   /\ ret.exprs[i].frame.how = w.how
                   /\ ret.exprs[i].frame.group_by = w.group_by \o args.self.by
                   /\ ret.exprs[i].frame.order_by = w.order_by \o args.self._order_by

\* C27: having(), order_by() and over() return a new grouped table whose
\* having list / ordering list is the receiver's followed by the argument
\* (its elements, for a list) and whose window is the argument of over();
\* everything else, the table and the grouping keys included, is the
\* receiver's.
C27_ImmutableBuilder ==
    LET self == args.self
        given == IF args.expr.py = "list" THEN args.expr.elems ELSE <<args.expr>>
    IN  /\ call = "having" =>
               grouped = [self EXCEPT !._having = self._having \o given]
        /\ call = "order_by" =>
               grouped = [self EXCEPT !._order_by = self._order_by \o given]
        /\ call = "over" =>
               grouped = [self EXCEPT !._window = args.window]

\* the third builder call in a row: a second having() after an order_by()
C27_Witness ==
    /\ call = "having"
    /\ Len(grouped._having) = 2
    /\ grouped._having[1] # grouped._having[2]
    /\ grouped._order_by # <<>>
    /\ Len(grouped.by) = 3

\* C25: the bounds of a fixed-size integer type of n bytes are
\* [-2^(8n-1), 2^(8n-1) - 1] when signed and [0, 2^(8n) - 1] when
\* unsigned; the bounds of an Interval are those of its value_type.
C25_IntegerBounds ==
    call = "bounds" =>
        LET self == args.self
            stored == IF is_interval(self)
                      THEN (IF "value_type" \in DOMAIN self THEN self.value_type
                            ELSE DT("Int32"))
                      ELSE self
            n == nbytes[stored.cls]
        IN  IF is_signed_integer(stored)
            THEN ret.bounds = [lower |-> Big(-1, 8 * n - 1, 0),
                               upper |-> Big(1, 8 * n - 1, -1)]
            ELSE ret.bounds = [lower |-> Big(0, 0, 0), upper |-> Big(1, 8 * n, -1)]

\* a lexer that honours backslash escapes inside single quotes, at
\* position i of text with the characters read so far: the string read
\* and the position of the closing quote, 0 when the literal never closes
RECURSIVE Lex(_, _, _)
Lex(text, i, read) ==
    IF i > Len(text) THEN [value |-> read, closed |-> 0]
    ELSE IF text[i] = Quote THEN [value |-> read, closed |-> i]
    ELSE IF text[i] = Backslash /\ i < Len(text)
    THEN Lex(text, i + 2, Append(read, text[i + 1]))
    ELSE Lex(text, i + 1, Append(read, text[i]))

\* C24: reading the generic formatter's text of a string back with a lexer
\* that honours backslash escapes inside single quotes gives the original
\* string, and the literal closes at its last character and not before.
C24_StringRoundTrip ==
    GenericStringCall =>
        /\ IsOk(ret)
        /\ ret.text[1] = Quote
        /\ Lex(ret.text, 2, <<>>) = [value |-> args.op.value.s, closed |-> Len(ret.text)]

\* the offsets arr[start:stop] selects from a list of length n, in order
\* (start and stop clamped as slice.indices clamps them)
Clamp(n, i) == IF i < 0 THEN (IF i + n < 0 THEN 0 ELSE i + n) ELSE (IF i > n THEN n ELSE i)

PySlice(n, start, stop) ==
    LET lo == Clamp(n, Val(start))
        hi == IF IsParam(stop) THEN Clamp(n, Val(stop)) ELSE n
    IN  [k \in 1..(IF hi > lo THEN hi - lo ELSE 0) |-> lo + k - 1]

C29_RecordedSchemaIsCurrent ==
    (call = "create_table" /\ IsOk(ret) /\ IsNone(args.schema)) =>
        /\ ret.value.schema = dictionary[args.name].schema
        /\ Backend_table(Backend, args.name, None).value.schema
               = dictionary[args.name].schema
        /\ get_schema(Backend, args.name).ret.value = dictionary[args.name].schema
====
